---- MODULE Spec2Model ----
(***************************************************************************)
(* Model of the OpenAI-compatible Converse service                         *)
(* (src/src/main/api/openai-compatible/openaiConverseService.ts).          *)
(*                                                                         *)
(* One logical call is either converseStream (mode "stream": the SSE body  *)
(* of the response is decoded by the iterator that                         *)
(* createBedrockStreamFromOpenAI returns) or converse (mode "converse":    *)
(* one JSON body goes through convertNonStreamingResponse).                *)
(*                                                                         *)
(* Bytes.  A response body is a sequence of tokens.  The text of line      *)
(* kind k is the two fragments <<"a",0>> (the bytes `data: `) and          *)
(* <<"b",k>> (its payload); <<"nl",0>> is the newline byte.  A byte chunk  *)
(* is any token sequence the transport hands to one reader.read(); a line  *)
(* may therefore be split between two chunks.                              *)
(* JavaScript truthiness: an absent, null or empty string field is         *)
(* modelled by the empty string "", which the code cannot tell apart       *)
(* (`if (x)`, `x || d`); where the code does tell them apart               *)
(* (delta.content, tc.index) the model keeps a separate tag.               *)
(***************************************************************************)
EXTENDS Integers, Sequences, FiniteSets, TLC

(* ------------------------------ bounds -------------------------------- *)
\* lines of one response body
MaxLines == 3
\* content blocks per message handed to the converter
MaxBlocks == 3
\* lines of a response body whose bytes are fixed in advance
MaxBodyLines == 2
\* messages of a request handed to buildOpenAIRequest
MaxMessages == 2

(* --------------------------- wire vocabulary -------------------------- *)
\* one entry of delta.tool_calls
TC(hasIndex, index, id, name, arguments) ==
  [hasIndex |-> hasIndex, index |-> index, id |-> id, name |-> name,
   arguments |-> arguments]

\* one line of the body.  prefix: the trimmed line starts with "data: ";
\* payload: "json" (parses), "corrupt" (JSON.parse throws), "done" ([DONE]),
\* "" (no payload: blank or comment line).
NoLine ==
  [prefix |-> FALSE, payload |-> "", hasUsage |-> FALSE, prompt_tokens |-> 0,
   completion_tokens |-> 0, hasChoice |-> FALSE, hasDelta |-> FALSE,
   contentTag |-> "absent", content |-> "", hasToolCalls |-> FALSE,
   tool_calls |-> <<>>, finish_reason |-> ""]

DoneLine == [NoLine EXCEPT !.prefix = TRUE, !.payload = "done"]
CorruptLine == [NoLine EXCEPT !.prefix = TRUE, !.payload = "corrupt"]
\* data: {"choices":[{"delta":{}}]}
DeltaLine ==
  [NoLine EXCEPT !.prefix = TRUE, !.payload = "json", !.hasChoice = TRUE,
                 !.hasDelta = TRUE]
TextLine(t) == [DeltaLine EXCEPT !.contentTag = "string", !.content = t]
ToolLine(tcs) == [DeltaLine EXCEPT !.hasToolCalls = TRUE, !.tool_calls = tcs]
FinishLine(fr) == [DeltaLine EXCEPT !.finish_reason = fr]

\* the line kinds a body is made of
LineKinds ==
  << TextLine("Hello"),
     TextLine(""),
     [DeltaLine EXCEPT !.contentTag = "null", !.hasUsage = TRUE,
                       !.prompt_tokens = 5, !.completion_tokens = 2],
     ToolLine(<< TC(TRUE, 0, "call_1", "lookup", "{\"q\":1}") >>),
     ToolLine(<< TC(FALSE, 0, "", "", "x") >>),
     [ToolLine(<< TC(TRUE, 1, "call_2", "calc", "") >>)
        EXCEPT !.contentTag = "null"],
     [FinishLine("stop") EXCEPT !.hasUsage = TRUE, !.prompt_tokens = 7,
                                !.completion_tokens = 3],
     FinishLine("tool_calls"),
     [TextLine("!") EXCEPT !.finish_reason = "length"],
     FinishLine("Tool_Calls"),
     [NoLine EXCEPT !.prefix = TRUE, !.payload = "json", !.hasChoice = TRUE,
                    !.finish_reason = "stop"],
     [NoLine EXCEPT !.prefix = TRUE, !.payload = "json", !.hasUsage = TRUE,
                    !.prompt_tokens = 9, !.completion_tokens = 4],
     CorruptLine,
     DoneLine >>

NK == Len(LineKinds)
NL == <<"nl", 0>>
DataPrefix == <<"a", 0>>
FullLine(k) == << DataPrefix, <<"b", k>>, NL >>
\* Date.now() at the moments the session may synthesize a tool-call id
Clock == {"1000", "1001"}

(* ------------------------------ events -------------------------------- *)
NoEvent ==
  [type |-> "", contentBlockIndex |-> -1, kind |-> "", role |-> "",
   toolUseId |-> "", name |-> "", text |-> "", stopReason |-> "",
   inputTokens |-> 0, outputTokens |-> 0]

MessageStart == [NoEvent EXCEPT !.type = "messageStart", !.role = "assistant"]
TextStart(i) ==
  [NoEvent EXCEPT !.type = "contentBlockStart", !.contentBlockIndex = i,
                  !.kind = "text"]
TextDelta(i, t) ==
  [NoEvent EXCEPT !.type = "contentBlockDelta", !.contentBlockIndex = i,
                  !.kind = "text", !.text = t]
ToolStart(i, id, name) ==
  [NoEvent EXCEPT !.type = "contentBlockStart", !.contentBlockIndex = i,
                  !.kind = "toolUse", !.toolUseId = id, !.name = name]
ToolDelta(i, input) ==
  [NoEvent EXCEPT !.type = "contentBlockDelta", !.contentBlockIndex = i,
                  !.kind = "toolUse", !.text = input]
BlockStop(i) ==
  [NoEvent EXCEPT !.type = "contentBlockStop", !.contentBlockIndex = i]
MessageStop(r) == [NoEvent EXCEPT !.type = "messageStop", !.stopReason = r]
Metadata(i, o) ==
  [NoEvent EXCEPT !.type = "metadata", !.inputTokens = i, !.outputTokens = o]

(* ------------------------------- state -------------------------------- *)
VARIABLES
  mode,                     \* "stream" (converseStream) or "converse"
  pc,                       \* where the consumer / next() stands
  done, buffer, contentBlockIndex, toolCallAccumulator, messageStartSent,
  currentContentBlockOpen, inputTokens, outputTokens, pendingEvents,
  readerLocked,             \* the lock response.body.getReader() took
  lastResult,               \* outcome of the last next(): value/done/throw
  delivered,                \* events handed to the consumer so far
  lines,                    \* complete lines processed so far
  readEnded,                \* reader.read() has resolved with done
  nsIn,                     \* the JSON body handed to converse()
  nsOut,                    \* result of convertNonStreamingResponse
  dpc,                      \* where converse / converseStream stands
  retries,                  \* the `retries` argument of the running attempt
  attempts,                 \* HTTP requests issued by the logical call
  config,                   \* store.get('openaiCompatible')
  error,                    \* message of the error caught last
  thrown,                   \* message of the error the caller received
  elapsed,                  \* milliseconds spent in retry delays
  cvIn,                     \* input of the outbound converter
  cvOut,                    \* its output
  calls,                    \* the logical calls running on the service
  iters                     \* the iterators obtained from returned streams

vars == <<mode, pc, done, buffer, contentBlockIndex, toolCallAccumulator,
          messageStartSent, currentContentBlockOpen, inputTokens,
          outputTokens, pendingEvents, readerLocked, lastResult,
          delivered, lines, readEnded, nsIn, nsOut, dpc, retries, attempts,
          config, error, thrown, elapsed, cvIn, cvOut, calls, iters>>
\* the translator session and its consumer
streamVars == <<pc, done, buffer, contentBlockIndex, toolCallAccumulator,
                messageStartSent, currentContentBlockOpen, inputTokens,
                outputTokens, pendingEvents, readerLocked, lastResult,
                delivered, lines, readEnded>>
\* the request dispatcher
dispatchVars == <<dpc, retries, attempts, config, error, thrown, elapsed>>
\* the outbound converter
convertVars == <<cvIn, cvOut>>
\* concurrent calls and their iterators
callVars == <<calls, iters>>
\* everything of the single-call view
singleVars == <<mode, streamVars, nsIn, nsOut, dispatchVars, convertVars>>

(* ----------------------- the translator's steps ----------------------- *)
\* the mutable locals of [Symbol.asyncIterator]() except the byte buffer
Sess ==
  [done |-> done, contentBlockIndex |-> contentBlockIndex,
   toolCallAccumulator |-> toolCallAccumulator,
   messageStartSent |-> messageStartSent,
   currentContentBlockOpen |-> currentContentBlockOpen,
   inputTokens |-> inputTokens, outputTokens |-> outputTokens,
   pendingEvents |-> pendingEvents]

\* the locals right after [Symbol.asyncIterator]() has run
InitSess ==
  [done |-> FALSE, contentBlockIndex |-> 0, toolCallAccumulator |-> <<>>,
   messageStartSent |-> FALSE, currentContentBlockOpen |-> FALSE,
   inputTokens |-> 0, outputTokens |-> 0, pendingEvents |-> <<>>]

Push(s, ev) == [s EXCEPT !.pendingEvents = Append(@, ev)]

\* variant: the finish reason is compared without regard to case
MapFinishReasonAnyCase(fr) ==
  IF fr \in {"tool_calls", "Tool_Calls", "TOOL_CALLS"} THEN "tool_use"
  ELSE IF fr \in {"length", "Length"} THEN "max_tokens"
  ELSE "end_turn"

\* let stopReason = 'end_turn'; if (=== 'tool_calls') ...; else if (=== 'length') ...
MapFinishReason(fr) ==
  IF fr = "tool_calls" THEN "tool_use"
  ELSE IF fr = "length" THEN "max_tokens"
  ELSE "end_turn"

\* the same table as written a second time in convertNonStreamingResponse
MapFinishReasonNonStreaming(fr) ==
  IF fr = "tool_calls" THEN "tool_use"
  ELSE IF fr = "length" THEN "max_tokens"
  ELSE "end_turn"

\* if (parsed.usage) { inputTokens = ... || 0; outputTokens = ... || 0 }
TrackUsage(s, line) ==
  IF line.hasUsage
  THEN [s EXCEPT !.inputTokens = line.prompt_tokens,
                 !.outputTokens = line.completion_tokens]
  ELSE s

\* variant: messageStart is pushed for every delta chunk
SendMessageStartAlways(s) ==
  [Push(s, MessageStart) EXCEPT !.messageStartSent = TRUE]

\* if (!messageStartSent) { push messageStart; messageStartSent = true }
SendMessageStart(s) ==
  IF ~s.messageStartSent
  THEN [Push(s, MessageStart) EXCEPT !.messageStartSent = TRUE]
  ELSE s

\* variant: `if (delta.content)`, which drops the empty string
HandleTextTruthy(s, line) ==
  IF line.contentTag = "string" /\ line.content # ""
  THEN LET s1 == IF ~s.currentContentBlockOpen
                 THEN [Push(s, TextStart(s.contentBlockIndex))
                         EXCEPT !.currentContentBlockOpen = TRUE]
                 ELSE s
       IN Push(s1, TextDelta(s1.contentBlockIndex, line.content))
  ELSE s

\* if (delta.content !== undefined && delta.content !== null) { ... }
HandleText(s, line) ==
  IF line.contentTag = "string"
  THEN LET s1 == IF ~s.currentContentBlockOpen
                 THEN [Push(s, TextStart(s.contentBlockIndex))
                         EXCEPT !.currentContentBlockOpen = TRUE]
                 ELSE s
       IN Push(s1, TextDelta(s1.contentBlockIndex, line.content))
  ELSE s

\* the text-block close used by the tool_calls and the finish_reason branch
CloseTextBlock(s) ==
  IF s.currentContentBlockOpen
  THEN [Push(s, BlockStop(s.contentBlockIndex))
          EXCEPT !.contentBlockIndex = @ + 1,
                 !.currentContentBlockOpen = FALSE]
  ELSE s

\* the text-block close of the readDone branch
CloseTextBlockAtEnd(s) ==
  IF s.currentContentBlockOpen
  THEN [Push(s, BlockStop(s.contentBlockIndex - 1))
          EXCEPT !.currentContentBlockOpen = FALSE]
  ELSE s

AccPos(acc, key) == CHOOSE i \in 1..Len(acc) : acc[i].key = key

\* body of `for (const tc of delta.tool_calls)`
AccumulateToolCall(acc, tc, now) ==
  LET tcIndex == IF tc.hasIndex THEN tc.index ELSE 0
      has == \E i \in 1..Len(acc) : acc[i].key = tcIndex
      acc1 == IF has THEN acc
              ELSE Append(acc,
                     [key |-> tcIndex,
                      id |-> IF tc.id # "" THEN tc.id
                             ELSE "call_" \o now \o "_" \o ToString(tcIndex),
                      name |-> tc.name,
                      arguments |-> ""])
      p == AccPos(acc1, tcIndex)
  IN [acc1 EXCEPT ![p] =
        [@ EXCEPT !.id = IF tc.id # "" THEN tc.id ELSE @,
                  !.name = IF tc.name # "" THEN tc.name ELSE @,
                  !.arguments = IF tc.arguments # "" THEN @ \o tc.arguments
                                ELSE @]]

RECURSIVE AccumulateAll(_, _, _)
AccumulateAll(acc, tcs, now) ==
  IF tcs = <<>> THEN acc
  ELSE AccumulateAll(AccumulateToolCall(acc, Head(tcs), now), Tail(tcs), now)

\* variant: the tool calls are accumulated while the text block stays open
HandleToolCallsNoClose(s, line, now) ==
  IF line.hasToolCalls
  THEN [s EXCEPT !.toolCallAccumulator =
                   AccumulateAll(@, line.tool_calls, now)]
  ELSE s

\* if (delta.tool_calls) { close the text block; accumulate every entry }
HandleToolCalls(s, line, now) ==
  IF line.hasToolCalls
  THEN LET s1 == CloseTextBlock(s)
       IN [s1 EXCEPT !.toolCallAccumulator =
                        AccumulateAll(@, line.tool_calls, now)]
  ELSE s

\* for (const [idx, tool] of toolCallAccumulator) { start; delta?; stop; index++ }
RECURSIVE FlushEvents(_, _)
FlushEvents(acc, idx) ==
  IF acc = <<>> THEN <<>>
  ELSE LET tool == Head(acc)
       IN << ToolStart(idx, tool.id, tool.name) >>
          \o (IF tool.arguments # "" THEN << ToolDelta(idx, tool.arguments) >>
              ELSE <<>>)
          \o << BlockStop(idx) >>
          \o FlushEvents(Tail(acc), idx + 1)

FlushToolCalls(s) ==
  [s EXCEPT !.pendingEvents =
              @ \o FlushEvents(s.toolCallAccumulator, s.contentBlockIndex),
            !.contentBlockIndex = @ + Len(s.toolCallAccumulator),
            !.toolCallAccumulator = <<>>]

\* push messageStop and metadata
PushStop(s, stopReason) ==
  Push(Push(s, MessageStop(stopReason)),
       Metadata(s.inputTokens, s.outputTokens))

\* if (choice.finish_reason) { ...; done = true }
HandleFinish(s, line) ==
  IF line.finish_reason # ""
  THEN [PushStop(FlushToolCalls(CloseTextBlock(s)),
                 MapFinishReason(line.finish_reason))
          EXCEPT !.done = TRUE]
  ELSE s

\* the try block of the per-line loop, after JSON.parse succeeded
ProcessParsed(s, line, now) ==
  IF ~line.hasChoice THEN s
  ELSE LET s1 == TrackUsage(s, line)
       IN IF ~line.hasDelta THEN s1
          ELSE HandleFinish(
                 HandleToolCalls(HandleText(SendMessageStart(s1), line),
                                 line, now),
                 line)

\* variant: a line that does not parse ends the session
ProcessLineAbortOnCorrupt(s, line, now) ==
  IF ~line.prefix THEN s
  ELSE IF line.payload = "done" THEN s
  ELSE IF line.payload = "corrupt" THEN [s EXCEPT !.done = TRUE]
  ELSE ProcessParsed(s, line, now)

\* one iteration of `for (const line of lines)`
ProcessLine(s, line, now) ==
  IF ~line.prefix THEN s
  ELSE IF line.payload = "done" THEN s
  ELSE IF line.payload = "corrupt" THEN s
  ELSE ProcessParsed(s, line, now)

RECURSIVE ProcessLines(_, _, _)
ProcessLines(s, ls, now) ==
  IF ls = <<>> THEN s
  ELSE ProcessLines(ProcessLine(s, Head(ls), now), Tail(ls), now)

\* the readDone branch up to its return
EndOfStream(s) ==
  PushStop(FlushToolCalls(CloseTextBlockAtEnd([s EXCEPT !.done = TRUE])),
           "end_turn")

(* --------------------------- byte decoding ---------------------------- *)
\* buffer.split('\n'): the segments between newline tokens
RECURSIVE SplitNL(_, _)
SplitNL(toks, cur) ==
  IF toks = <<>> THEN << cur >>
  ELSE IF Head(toks) = NL THEN << cur >> \o SplitNL(Tail(toks), <<>>)
  ELSE SplitNL(Tail(toks), Append(cur, Head(toks)))

\* the text of a segment read as one line: trim, test the `data: ` prefix
\* (a bare `data: ` is trimmed to `data:` and has no prefix), parse
SegLine(seg) ==
  IF Len(seg) = 2 /\ seg[1] = DataPrefix /\ seg[2][1] = "b"
  THEN LineKinds[seg[2][2]]
  ELSE IF Len(seg) > 2 /\ seg[1] = DataPrefix THEN CorruptLine
  ELSE NoLine

SegLines(segs) == [i \in 1..Len(segs) |-> SegLine(segs[i])]

Front(q) == SubSeq(q, 1, Len(q) - 1)
Last(q) == q[Len(q)]

(* -------------------------------- JSON -------------------------------- *)
\* A JSON text is a sequence of tokens: the punctuation { } [ ] : , the
\* literals null true false, number tokens, and string tokens, which are
\* the contents between double quotes.  A JSON value is a record of its
\* type t, its scalar text s (a token sequence) and its members m, each
\* member a record of its key k and its value v (k = "" in arrays).
JNull == [t |-> "null", s |-> <<>>, m |-> <<>>]
JBool(b) == [t |-> "bool", s |-> <<b>>, m |-> <<>>]
JNum(n) == [t |-> "num", s |-> <<n>>, m |-> <<>>]
JStr(str) == [t |-> "str", s |-> str, m |-> <<>>]
JObj(members) == [t |-> "obj", s |-> <<>>, m |-> members]
JArr(members) == [t |-> "arr", s |-> <<>>, m |-> members]
Member(key, val) == [k |-> key, v |-> val]

\* the contents of the string literals and the number literals in use
StrLits == {"q", "a", "x", "raw"}
NumToks == {"0", "1", "2"}
Quote(str) == "\"" \o str \o "\""
IsStrTok(tok) == \E str \in StrLits : tok = Quote(str)
Unquote(tok) == CHOOSE str \in StrLits : tok = Quote(str)

\* the token at position i, "" past the end of the text
Tok(toks, i) == IF i \in DOMAIN toks THEN toks[i] ELSE ""
ParseFail == [ok |-> FALSE, v |-> JNull, next |-> 0]
ParseOk(val, n) == [ok |-> TRUE, v |-> val, next |-> n]

\* an object keeps one member per key, at the place of the key's first
\* occurrence, with the value of its last occurrence
SetMember(members, key, val) ==
  IF \E i \in DOMAIN members : members[i].k = key
  THEN [i \in DOMAIN members |->
          IF members[i].k = key THEN Member(key, val) ELSE members[i]]
  ELSE Append(members, Member(key, val))

RECURSIVE ParseValue(_, _)
RECURSIVE ParseMembers(_, _, _)
RECURSIVE ParseElements(_, _, _)

\* the members of an object from position i on, after "{" or ","
ParseMembers(toks, i, acc) ==
  IF ~IsStrTok(Tok(toks, i)) \/ Tok(toks, i + 1) # ":"
  THEN ParseFail
  ELSE LET r == ParseValue(toks, i + 2)
       IN IF ~r.ok
          THEN ParseFail
          ELSE LET acc2 == SetMember(acc, Unquote(Tok(toks, i)), r.v)
               IN IF Tok(toks, r.next) = ","
                  THEN ParseMembers(toks, r.next + 1, acc2)
                  ELSE IF Tok(toks, r.next) = "}"
                  THEN ParseOk(JObj(acc2), r.next + 1)
                  ELSE ParseFail

\* the elements of an array from position i on, after "[" or ","
ParseElements(toks, i, acc) ==
  LET r == ParseValue(toks, i)
  IN IF ~r.ok
     THEN ParseFail
     ELSE LET acc2 == Append(acc, Member("", r.v))
          IN IF Tok(toks, r.next) = ","
             THEN ParseElements(toks, r.next + 1, acc2)
             ELSE IF Tok(toks, r.next) = "]"
             THEN ParseOk(JArr(acc2), r.next + 1)
             ELSE ParseFail

\* the value that starts at position i
ParseValue(toks, i) ==
  LET tok == Tok(toks, i)
  IN IF tok = "{"
     THEN IF Tok(toks, i + 1) = "}"
          THEN ParseOk(JObj(<<>>), i + 2)
          ELSE ParseMembers(toks, i + 1, <<>>)
     ELSE IF tok = "["
     THEN IF Tok(toks, i + 1) = "]"
          THEN ParseOk(JArr(<<>>), i + 2)
          ELSE ParseElements(toks, i + 1, <<>>)
     ELSE IF IsStrTok(tok) THEN ParseOk(JStr(<<Unquote(tok)>>), i + 1)
     ELSE IF tok \in NumToks THEN ParseOk(JNum(tok), i + 1)
     ELSE IF tok = "null" THEN ParseOk(JNull, i + 1)
     ELSE IF tok \in {"true", "false"} THEN ParseOk(JBool(tok), i + 1)
     ELSE ParseFail

\* JSON.parse: ok is FALSE where it throws
JSONparse(toks) ==
  LET r == ParseValue(toks, 1)
  IN IF r.ok /\ r.next = Len(toks) + 1 THEN r ELSE ParseFail

(* ------------------------ non-streaming response ---------------------- *)
\* texts of function.arguments
ArgObjQ == << "{", Quote("q"), ":", "1", "}" >>
ArgObjNested ==
  << "{", Quote("a"), ":", "{", Quote("q"), ":", "1", "}", ",",
     Quote("x"), ":", "[", "null", ",", Quote("q"), "]", "}" >>
ArgEmptyObj == << "{", "}" >>
ArgTruncated == << "{", Quote("q"), ":" >>
ArgNotJson == << "{", "bad" >>
ArgEmpty == <<>>

\* the wire responses handed to convertNonStreamingResponse
FinishReasons == {"", "stop", "tool_calls", "length", "Length", "TOOL_CALLS"}
WireToolCalls ==
  { <<>>,
    << [id |-> "call_1", name |-> "lookup", arguments |-> ArgObjQ] >>,
    << [id |-> "call_1", name |-> "lookup", arguments |-> ArgNotJson],
       [id |-> "call_2", name |-> "calc", arguments |-> ArgEmptyObj] >>,
    << [id |-> "call_2", name |-> "calc", arguments |-> ArgEmpty],
       [id |-> "call_1", name |-> "lookup", arguments |-> ArgObjNested],
       [id |-> "call_3", name |-> "lookup", arguments |-> ArgTruncated] >> }
NSResponses ==
  [hasChoice : BOOLEAN, content : {"", "Hello"}, tool_calls : WireToolCalls,
   finish_reason : FinishReasons, hasUsage : BOOLEAN,
   prompt_tokens : {0, 7}, completion_tokens : {3}, total_tokens : {10}]

NoResponse ==
  [hasChoice |-> FALSE, content |-> "", tool_calls |-> <<>>,
   finish_reason |-> "", hasUsage |-> FALSE, prompt_tokens |-> 0,
   completion_tokens |-> 0, total_tokens |-> 0]

NoOutput ==
  [status |-> "none", content |-> <<>>, stopReason |-> "",
   inputTokens |-> 0, outputTokens |-> 0, totalTokens |-> 0]

\* content blocks of a Bedrock message
TextBlock(txt) ==
  [kind |-> "text", text |-> txt, toolUseId |-> "", name |-> "",
   input |-> JNull]
ToolUse(id, nm, inp) ==
  [kind |-> "toolUse", text |-> "", toolUseId |-> id, name |-> nm,
   input |-> inp]

\* variant: an argument text that does not parse gives an empty input
ToolUseBlockNoRaw(tc) ==
  LET r == JSONparse(tc.arguments)
  IN ToolUse(tc.id, tc.name, IF r.ok THEN r.v ELSE JObj(<<>>))

\* one ToolUse block of the non-streaming output
ToolUseBlock(tc) ==
  LET r == JSONparse(tc.arguments)
  IN ToolUse(tc.id, tc.name,
             IF r.ok THEN r.v
             ELSE JObj(<< Member("raw", JStr(tc.arguments)) >>))

\* the translation of a response that has a choice
ConvertChoice(data) ==
       [status |-> "ok",
        content |->
          (IF data.content # ""
           THEN << TextBlock(data.content) >>
           ELSE <<>>)
          \o [i \in 1..Len(data.tool_calls) |-> ToolUseBlock(data.tool_calls[i])],
        stopReason |-> MapFinishReasonNonStreaming(data.finish_reason),
        inputTokens |-> IF data.hasUsage THEN data.prompt_tokens ELSE 0,
        outputTokens |-> IF data.hasUsage THEN data.completion_tokens ELSE 0,
        totalTokens |-> IF data.hasUsage THEN data.total_tokens ELSE 0]

\* variant: a response without a choice is translated as an empty message
convertNonStreamingResponseLenient(data) ==
  IF ~data.hasChoice
  THEN [NoOutput EXCEPT !.status = "ok", !.stopReason = "end_turn"]
  ELSE ConvertChoice(data)

convertNonStreamingResponse(data) ==
  IF ~data.hasChoice
  THEN [NoOutput EXCEPT !.status = "error"]
  ELSE ConvertChoice(data)

(* -------------------------- outbound converter ------------------------ *)
RECURSIVE JoinStr(_)
\* the string a token sequence spells
JoinStr(toks) ==
  IF toks = <<>> THEN "" ELSE Head(toks) \o JoinStr(Tail(toks))

RECURSIVE JoinNL(_)
\* Array.prototype.join('\n')
JoinNL(parts) ==
  IF parts = <<>> THEN ""
  ELSE IF Len(parts) = 1 THEN parts[1]
  ELSE parts[1] \o "\n" \o JoinNL(Tail(parts))

RECURSIVE JSONstringify(_)
RECURSIVE StringifyMembers(_, _)
\* the members or elements of an object or array, separated by commas
StringifyMembers(members, isObj) ==
  IF members = <<>> THEN <<>>
  ELSE (IF isObj THEN << Quote(members[1].k), ":" >> ELSE <<>>)
       \o JSONstringify(members[1].v)
       \o (IF Len(members) > 1 THEN << "," >> ELSE <<>>)
       \o StringifyMembers(Tail(members), isObj)

\* JSON.stringify, for string values that need no escape
JSONstringify(val) ==
  IF val.t = "obj" THEN << "{" >> \o StringifyMembers(val.m, TRUE) \o << "}" >>
  ELSE IF val.t = "arr"
  THEN << "[" >> \o StringifyMembers(val.m, FALSE) \o << "]" >>
  ELSE IF val.t = "str" THEN << Quote(JoinStr(val.s)) >>
  ELSE IF val.t = "null" THEN << "null" >>
  ELSE val.s

\* JavaScript truthiness of a JSON value (undefined is JNull)
Truthy(val) ==
  /\ val.t # "null"
  /\ val # JBool("false")
  /\ val # JNum("0")
  /\ val # JStr(<<>>)

\* blocks other than text and toolUse
ImageBlock ==
  [kind |-> "image", text |-> "", toolUseId |-> "", name |-> "",
   input |-> JNull]
\* a toolResult block; hasContent is FALSE when its content is absent
ToolResultBlock(id, hasContent, content) ==
  [kind |-> "toolResult", text |-> "", toolUseId |-> id, name |-> "",
   input |-> JNull, hasContent |-> hasContent, content |-> content]
SubText(txt) == [kind |-> "text", text |-> txt, json |-> JNull]
SubJson(val) == [kind |-> "json", text |-> "", json |-> val]

\* an internal message; hasContent is FALSE when msg.content is absent
Message(role, hasContent, content) ==
  [role |-> role, hasContent |-> hasContent, content |-> content]

\* a wire message; contentTag is "null" or "string"
WireMessage(role, contentTag, content, tool_call_id, hasToolCalls, tool_calls) ==
  [role |-> role, contentTag |-> contentTag, content |-> content,
   tool_call_id |-> tool_call_id, hasToolCalls |-> hasToolCalls,
   tool_calls |-> tool_calls]

IsToolResult(block) == block.kind = "toolResult"
IsTruthyText(block) == block.kind = "text" /\ block.text # ""
NonEmpty(str) == str # ""

\* the text of one sub-block of a toolResult
SubBlockText(c) ==
  IF c.kind = "text" /\ c.text # "" THEN c.text
  ELSE IF c.kind = "json" /\ Truthy(c.json) THEN JoinStr(JSONstringify(c.json))
  ELSE ""

\* the wire tool message of one toolResult block
ToolMessage(block) ==
  LET texts == [i \in DOMAIN block.content |-> SubBlockText(block.content[i])]
      resultContent ==
        IF block.hasContent THEN JoinNL(SelectSeq(texts, NonEmpty)) ELSE ""
  IN WireMessage("tool", "string", resultContent, block.toolUseId, FALSE, <<>>)

\* variant: a message without text blocks gets no user message
ConvertUserMessageNoEmpty(msg) ==
  LET toolResults == SelectSeq(msg.content, IsToolResult)
      textBlocks == SelectSeq(msg.content, IsTruthyText)
      text == JoinNL([i \in DOMAIN textBlocks |-> textBlocks[i].text])
  IN [i \in DOMAIN toolResults |-> ToolMessage(toolResults[i])]
     \o (IF Len(textBlocks) > 0 /\ text # ""
         THEN << WireMessage("user", "string", text, "", FALSE, <<>>) >>
         ELSE <<>>)

\* convertMessagesToOpenAI, the branch of a user message
ConvertUserMessage(msg) ==
  LET toolResults == SelectSeq(msg.content, IsToolResult)
      textBlocks == SelectSeq(msg.content, IsTruthyText)
      text == JoinNL(SelectSeq([i \in DOMAIN textBlocks |-> textBlocks[i].text],
                               NonEmpty))
  IN [i \in DOMAIN toolResults |-> ToolMessage(toolResults[i])]
     \o (IF Len(textBlocks) > 0
         THEN IF text # ""
              THEN << WireMessage("user", "string", text, "", FALSE, <<>>) >>
              ELSE <<>>
         ELSE IF Len(toolResults) = 0
         THEN << WireMessage("user", "string", "", "", FALSE, <<>>) >>
         ELSE <<>>)

IsToolUseNotText(block) == ~IsTruthyText(block) /\ block.kind = "toolUse"

\* variant: the input is converted with String()
ToolCallToString(block, now) ==
  [id |-> IF block.toolUseId # "" THEN block.toolUseId ELSE "call_" \o now,
   name |-> block.name,
   arguments |->
     IF block.input.t = "str" THEN block.input.s
     ELSE IF block.input.t = "obj" THEN << "[object Object]" >>
     ELSE JSONstringify(block.input)]

\* the wire tool call of one toolUse block; now is Date.now()
ToolCall(block, now) ==
  [id |-> IF block.toolUseId # "" THEN block.toolUseId ELSE "call_" \o now,
   name |-> block.name,
   arguments |->
     IF block.input.t = "str" THEN block.input.s
     ELSE JSONstringify(IF Truthy(block.input) THEN block.input
                        ELSE JObj(<<>>))]

\* variant: tool_calls is attached even when it is empty
ConvertAssistantMessageAlwaysCalls(msg, now) ==
  LET textBlocks == SelectSeq(msg.content, IsTruthyText)
      textParts == [i \in DOMAIN textBlocks |-> textBlocks[i].text]
      uses == SelectSeq(msg.content, IsToolUseNotText)
      toolCalls == [i \in DOMAIN uses |-> ToolCall(uses[i], now)]
  IN << WireMessage("assistant",
                    IF Len(textParts) > 0 THEN "string" ELSE "null",
                    JoinNL(textParts), "", TRUE, toolCalls) >>

\* convertMessagesToOpenAI, the branch of an assistant message
ConvertAssistantMessage(msg, now) ==
  LET textBlocks == SelectSeq(msg.content, IsTruthyText)
      textParts == [i \in DOMAIN textBlocks |-> textBlocks[i].text]
      uses == SelectSeq(msg.content, IsToolUseNotText)
      toolCalls == [i \in DOMAIN uses |-> ToolCall(uses[i], now)]
  IN << WireMessage("assistant",
                    IF Len(textParts) > 0 THEN "string" ELSE "null",
                    JoinNL(textParts), "", Len(toolCalls) > 0, toolCalls) >>

\* convertMessagesToOpenAI, the loop body for one message
ConvertMessage(msg, now) ==
  IF ~msg.hasContent THEN <<>>
  ELSE IF msg.role = "user" THEN ConvertUserMessage(msg)
  ELSE IF msg.role = "assistant" THEN ConvertAssistantMessage(msg, now)
  ELSE <<>>

RECURSIVE convertMessagesToOpenAI(_, _)
convertMessagesToOpenAI(messages, now) ==
  IF messages = <<>> THEN <<>>
  ELSE ConvertMessage(Head(messages), now)
       \o convertMessagesToOpenAI(Tail(messages), now)

\* an inference parameter: def is FALSE when it is undefined
Undefined == [def |-> FALSE, val |-> 0]
Defined(v) == [def |-> TRUE, val |-> v]
\* params.inferenceConfig; has is FALSE when it is absent
NoInferenceConfig ==
  [has |-> FALSE, maxTokens |-> Undefined, temperature |-> Undefined,
   topP |-> Undefined]
InferenceConfigs ==
  { NoInferenceConfig } \cup
  [has : {TRUE}, maxTokens : {Undefined, Defined(0), Defined(256)},
   temperature : {Undefined, Defined(0), Defined(1)},
   topP : {Undefined, Defined(0), Defined(1)}]

\* the inference fields of the wire request; an undefined field is absent
InferenceParams(cfg) ==
  [max_tokens |->
     IF cfg.has /\ cfg.maxTokens.def /\ cfg.maxTokens.val # 0
     THEN cfg.maxTokens ELSE Undefined,
   temperature |->
     IF cfg.has /\ cfg.temperature.def THEN cfg.temperature ELSE Undefined,
   top_p |-> IF cfg.has /\ cfg.topP.def THEN cfg.topP ELSE Undefined]

\* an optional string or flag: def is FALSE when it is undefined
NoStr == [def |-> FALSE, val |-> ""]
Str(v) == [def |-> TRUE, val |-> v]
NoFlag == [def |-> FALSE, val |-> FALSE]
Flag(v) == [def |-> TRUE, val |-> v]

\* a system content block that is not a text block
CachePointBlock ==
  [kind |-> "cachePoint", text |-> "", toolUseId |-> "", name |-> "",
   input |-> JNull]
\* params.system; has is FALSE when it is absent
NoSystem == [has |-> FALSE, blocks |-> <<>>]
System(blocks) == [has |-> TRUE, blocks |-> blocks]

\* the text convertSystemToOpenAI takes from one block
SystemBlockText(block) ==
  IF block.kind = "text" /\ block.text # "" THEN block.text ELSE ""

\* variant: the texts are joined as they are
convertSystemToOpenAIKeepEmpty(system) ==
  LET texts == [i \in DOMAIN system.blocks |-> SystemBlockText(system.blocks[i])]
      text == JoinNL(texts)
  IN IF ~system.has \/ Len(system.blocks) = 0 THEN <<>>
     ELSE IF text = "" THEN <<>>
     ELSE << WireMessage("system", "string", text, "", FALSE, <<>>) >>

\* convertSystemToOpenAI: no message (null) or the system message
convertSystemToOpenAI(system) ==
  LET texts == [i \in DOMAIN system.blocks |-> SystemBlockText(system.blocks[i])]
      text == JoinNL(SelectSeq(texts, NonEmpty))
  IN IF ~system.has \/ Len(system.blocks) = 0 THEN <<>>
     ELSE IF text = "" THEN <<>>
     ELSE << WireMessage("system", "string", text, "", FALSE, <<>>) >>

\* a tool of params.toolConfig.tools; json is inputSchema?.json
Tool(hasSpec, name, description, json) ==
  [hasSpec |-> hasSpec, name |-> name, description |-> description,
   json |-> json]
\* params.toolConfig; has is FALSE when it or its tools are absent
NoToolConfig == [has |-> FALSE, tools |-> <<>>]
ToolConfig(tools) == [has |-> TRUE, tools |-> tools]

HasToolSpec(tool) == tool.hasSpec

\* one entry of the wire tools
WireTool(tool) ==
  [type |-> "function",
   name |-> IF tool.name.def THEN tool.name.val ELSE "",
   description |-> IF tool.description.def THEN tool.description.val ELSE "",
   parameters |-> IF Truthy(tool.json) THEN tool.json ELSE JObj(<<>>)]

\* variant: tools without a tool spec are converted too
convertToolConfigToOpenAINoFilter(toolConfig) ==
  LET specs == toolConfig.tools
  IN IF ~toolConfig.has \/ Len(toolConfig.tools) = 0
     THEN [def |-> FALSE, list |-> <<>>]
     ELSE [def |-> TRUE, list |-> [i \in DOMAIN specs |-> WireTool(specs[i])]]

\* convertToolConfigToOpenAI: undefined or the list of wire tools
convertToolConfigToOpenAI(toolConfig) ==
  LET specs == SelectSeq(toolConfig.tools, HasToolSpec)
  IN IF ~toolConfig.has \/ Len(toolConfig.tools) = 0
     THEN [def |-> FALSE, list |-> <<>>]
     ELSE [def |-> TRUE, list |-> [i \in DOMAIN specs |-> WireTool(specs[i])]]

\* the arguments of buildOpenAIRequest
NoParams ==
  [messages |-> <<>>, system |-> NoSystem, toolConfig |-> NoToolConfig,
   cfg |-> NoInferenceConfig, stream |-> NoFlag]

\* buildOpenAIRequest; an absent field of the request has its has-flag FALSE
buildOpenAIRequest(params, now) ==
  LET systemMsg == convertSystemToOpenAI(params.system)
      tools == convertToolConfigToOpenAI(params.toolConfig)
      withTools == tools.def /\ Len(tools.list) > 0
  IN [messages |-> systemMsg \o convertMessagesToOpenAI(params.messages, now),
      stream |-> IF params.stream.def THEN params.stream.val ELSE TRUE,
      hasTools |-> withTools,
      tools |-> IF withTools THEN tools.list ELSE <<>>,
      hasToolChoice |-> withTools,
      tool_choice |-> IF withTools THEN "auto" ELSE "",
      inference |-> InferenceParams(params.cfg)]

\* the wire assistant message as the first choice of a response
AsResponse(wire) ==
  [hasChoice |-> TRUE,
   content |-> IF wire.contentTag = "null" THEN "" ELSE wire.content,
   tool_calls |-> IF wire.hasToolCalls THEN wire.tool_calls ELSE <<>>,
   finish_reason |-> "stop", hasUsage |-> FALSE, prompt_tokens |-> 0,
   completion_tokens |-> 0, total_tokens |-> 0]

\* what the converter was called with, and what it returned
NoConversion ==
  [op |-> "none", msg |-> Message("user", FALSE, <<>>), now |-> "1000",
   cfg |-> NoInferenceConfig, params |-> NoParams]
NoConverted ==
  [wire |-> <<>>, req |-> InferenceParams(NoInferenceConfig), back |-> <<>>,
   request |-> buildOpenAIRequest(NoParams, "1000")]

(* ----------------------------- dispatcher ----------------------------- *)
MAX_RETRIES == 5
RETRY_DELAY == 3000

\* Error messages are token sequences: every digit is a token of its own,
\* the text between digits is one token, so that String.includes on a
\* digit pattern is the search for a contiguous run of tokens.
ConfigErrorMsg ==
  << "OpenAI-compatible API is not configured. Please set API key and base URL in settings." >>
NoChoicesMsg == << "No choices in OpenAI response" >>
NoBodyMsg == << "No response body" >>
\* `OpenAI API error (${response.status}): ${errorText}`
ApiErrorMsg(status, body) ==
  << "OpenAI API error (" >> \o status \o << "): " >> \o body
\* non-2xx statuses and response texts of the endpoint
Statuses == { <<"4", "0", "0">>, <<"4", "0", "4">>, <<"4", "2", "9">>,
              <<"5", "0", "3">>, <<"3", "0", "2">> }
Bodies == { <<>>, << "rate limited" >>, << "model gpt-", "5", " not found" >> }
\* messages of the errors a rejected fetch carries
NetErrors == { << "fetch failed" >>,
               << "connect ETIMEDOUT ", "1", "0", ".", "0", ".", "0", ".",
                  "5", ":", "4", "4", "3" >> }

\* messages of the SyntaxError of response.json()
JsonErrors == { << "Unexpected end of JSON input" >>,
                << "Unexpected token < in JSON at position ", "0" >>,
                << "Unexpected token } in JSON at position ", "1", "5" >> }

\* String.prototype.includes
Includes(msg, pat) ==
  \E i \in 1..(Len(msg) - Len(pat) + 1) :
    SubSeq(msg, i, i + Len(pat) - 1) = pat

\* store.get('openaiCompatible')
Configs ==
  [present : BOOLEAN, apiKey : {"", "sk-1"}, baseUrl : {"", "http://h/v1"}]
\* variant: the base URL is not looked at
ConfigOkKeyOnly(c) == c.present /\ c.apiKey # ""

\* getConfig does not throw
ConfigOk(c) == c.present /\ c.apiKey # "" /\ c.baseUrl # ""

\* variant: only the rate-limit status is retried
IsRetryableOnly429(msg) == Includes(msg, <<"4", "2", "9">>)

\* error.message?.includes('429') || error.message?.includes('5')
IsRetryable(msg) ==
  Includes(msg, <<"4", "2", "9">>) \/ Includes(msg, <<"5">>)

\* variant: the budget test is `retries > MAX_RETRIES`
handleErrorOffByOne(msg, r) ==
  IF r > MAX_RETRIES THEN "throw"
  ELSE IF IsRetryable(msg) THEN "retry"
  ELSE "throw"

\* handleError / handleStreamError: what happens to a caught error
handleError(msg, r) ==
  IF r >= MAX_RETRIES THEN "throw"
  ELSE IF IsRetryable(msg) THEN "retry"
  ELSE "throw"

(* ------------------------------ actions ------------------------------- *)
SetSess(s) ==
  /\ done' = s.done
  /\ contentBlockIndex' = s.contentBlockIndex
  /\ toolCallAccumulator' = s.toolCallAccumulator
  /\ messageStartSent' = s.messageStartSent
  /\ currentContentBlockOpen' = s.currentContentBlockOpen
  /\ inputTokens' = s.inputTokens
  /\ outputTokens' = s.outputTokens

\* variant: the newest pending event is returned (pop for shift)
ReturnPendingNewest(q, otherwise) ==
  IF Len(q) > 0
  THEN /\ pendingEvents' = Front(q)
       /\ delivered' = Append(delivered, Last(q))
       /\ lastResult' = "value"
       /\ pc' = "idle"
  ELSE /\ pendingEvents' = q
       /\ delivered' = delivered
       /\ lastResult' = lastResult
       /\ pc' = otherwise

\* `if (pendingEvents.length > 0) return { done: false, value: shift() }`,
\* applied to the queue q the step has built; otherwise the step goes on
\* at position `otherwise`
ReturnPending(q, otherwise) ==
  IF Len(q) > 0
  THEN /\ pendingEvents' = Tail(q)
       /\ delivered' = Append(delivered, Head(q))
       /\ lastResult' = "value"
       /\ pc' = "idle"
  ELSE /\ pendingEvents' = q
       /\ delivered' = delivered
       /\ lastResult' = lastResult
       /\ pc' = otherwise

Init ==
  /\ mode \in {"stream", "converse"}
  /\ pc = "idle"
  /\ done = FALSE
  /\ buffer = <<>>
  /\ contentBlockIndex = 0
  /\ toolCallAccumulator = <<>>
  /\ messageStartSent = FALSE
  /\ currentContentBlockOpen = FALSE
  /\ inputTokens = 0
  /\ outputTokens = 0
  /\ pendingEvents = <<>>
  /\ readerLocked = (mode = "stream")
  /\ lastResult = "none"
  /\ delivered = <<>>
  /\ lines = <<>>
  /\ readEnded = FALSE
  /\ nsIn = NoResponse
  /\ nsOut = NoOutput
  /\ dpc = "returned"
  /\ retries = 0
  /\ attempts = 1
  /\ config = [present |-> TRUE, apiKey |-> "sk-1", baseUrl |-> "http://h/v1"]
  /\ error = <<>>
  /\ thrown = <<>>
  /\ elapsed = 0
  /\ cvIn = NoConversion
  /\ cvOut = NoConverted
  /\ calls = <<>>
  /\ iters = <<>>

\* variant: next() reads before it looks at the pending queue
NextCallReadsFirst ==
  /\ mode = "stream"
  /\ pc = "idle"
  /\ IF done
     THEN IF Len(pendingEvents) > 0
          THEN /\ ReturnPending(pendingEvents, "idle")
               /\ UNCHANGED done
          ELSE /\ lastResult' = "done"
               /\ UNCHANGED <<pc, done, pendingEvents, delivered>>
     ELSE /\ pc' = "reading"
          /\ UNCHANGED <<done, pendingEvents, delivered, lastResult>>
  /\ UNCHANGED <<mode, buffer, contentBlockIndex, toolCallAccumulator,
                 messageStartSent, currentContentBlockOpen, inputTokens,
                 outputTokens, readerLocked, lines, readEnded, nsIn,
                 nsOut, dispatchVars, convertVars,
                 callVars>>

\* the consumer asks for the next event: next() up to its first await
NextCall ==
  /\ mode = "stream"
  /\ pc = "idle"
  /\ IF Len(pendingEvents) > 0
     THEN /\ ReturnPending(pendingEvents, "idle")
          /\ UNCHANGED done
     ELSE IF done
     THEN /\ lastResult' = "done"
          /\ UNCHANGED <<pc, done, pendingEvents, delivered>>
     ELSE /\ pc' = "reading"
          /\ UNCHANGED <<done, pendingEvents, delivered, lastResult>>
  /\ UNCHANGED <<mode, buffer, contentBlockIndex, toolCallAccumulator,
                 messageStartSent, currentContentBlockOpen, inputTokens,
                 outputTokens, readerLocked, lines, readEnded, nsIn,
                 nsOut, dispatchVars, convertVars,
                 callVars>>

\* the byte chunks the transport may deliver next: the rest of a line whose
\* first fragment is in the buffer, then complete lines, then possibly the
\* first fragment of a further line; never empty, and at most MaxLines
\* lines in a body
LineSeqs(n) == UNION { [1..m -> 1..NK] : m \in 0..n }
Chunks ==
  LET open == IF buffer = <<>> THEN 0 ELSE 1
      room == MaxLines - Len(lines)
      heads == IF open = 1 THEN { << <<"b", k>>, NL >> : k \in 1..NK }
               ELSE { <<>> }
      Flat(ks) == [i \in 1..(3 * Len(ks)) |->
                     FullLine(ks[(i + 2) \div 3])[((i - 1) % 3) + 1]]
  IN { c \in { h \o Flat(ks) \o t :
                 h \in heads, ks \in LineSeqs(room - open),
                 t \in {<<>>, << DataPrefix >>} } :
       /\ c # <<>>
       /\ Len(SelectSeq(c, LAMBDA x : x[1] = "b"))
            + (IF c[Len(c)] = DataPrefix THEN 1 ELSE 0) <= room }

\* reader.read() resolves with bytes: decode, split, process every complete
\* line, then return the first pending event or read again
ReadChunk ==
  /\ pc = "reading"
  /\ \E chunk \in Chunks, now \in Clock :
       LET segs == SplitNL(buffer \o chunk, <<>>)
           ls == SegLines(Front(segs))
           s == ProcessLines(Sess, ls, now)
       IN /\ buffer' = Last(segs)
          /\ lines' = lines \o ls
          /\ SetSess(s)
          /\ ReturnPending(s.pendingEvents, "reading")
  /\ UNCHANGED <<mode, readerLocked, readEnded, nsIn, nsOut, dispatchVars,
                 convertVars,
                 callVars>>

\* reader.read() resolves with done: the readDone branch
ReadDone ==
  /\ pc = "reading"
  /\ LET s == EndOfStream(Sess)
     IN /\ SetSess(s)
        /\ IF Len(s.pendingEvents) > 0
           THEN /\ ReturnPending(s.pendingEvents, "idle")
                /\ UNCHANGED readerLocked
           ELSE /\ readerLocked' = FALSE
                /\ lastResult' = "done"
                /\ pc' = "idle"
                /\ UNCHANGED <<pendingEvents, delivered>>
  /\ readEnded' = TRUE
  /\ UNCHANGED <<mode, buffer, lines, nsIn, nsOut, dispatchVars, convertVars,
                 callVars>>

\* reader.read() rejects: the rejection leaves next() as a thrown error
ReadFail ==
  /\ pc = "reading"
  /\ pc' = "failed"
  /\ lastResult' = "throw"
  /\ UNCHANGED <<mode, done, buffer, contentBlockIndex, toolCallAccumulator,
                 messageStartSent, currentContentBlockOpen, inputTokens,
                 outputTokens, pendingEvents, readerLocked, delivered,
                 lines, readEnded, nsIn, nsOut, dispatchVars, convertVars,
                 callVars>>

\* the consumer leaves its loop before completion was reported; the
\* iterator object has no return() method, so nothing of the session runs
Abandon ==
  /\ mode = "stream"
  /\ pc = "idle"
  /\ lastResult # "done"
  /\ pc' = "abandoned"
  /\ UNCHANGED <<mode, done, buffer, contentBlockIndex, toolCallAccumulator,
                 messageStartSent, currentContentBlockOpen, inputTokens,
                 outputTokens, pendingEvents, readerLocked, lastResult,
                 delivered, lines, readEnded, nsIn, nsOut, dispatchVars,
                 convertVars,
                 callVars>>

\* converse(): the JSON body of the response is translated
Converse ==
  /\ mode = "converse"
  /\ pc = "idle"
  /\ \E data \in NSResponses :
       /\ nsIn' = data
       /\ nsOut' = convertNonStreamingResponse(data)
  /\ pc' = "returned"
  /\ UNCHANGED <<mode, done, buffer, contentBlockIndex, toolCallAccumulator,
                 messageStartSent, currentContentBlockOpen, inputTokens,
                 outputTokens, pendingEvents, readerLocked, lastResult,
                 delivered, lines, readEnded, dispatchVars, convertVars,
                 callVars>>

Next == NextCall \/ ReadChunk \/ ReadDone \/ ReadFail \/ Abandon \/ Converse

Spec == Init /\ [][Next]_vars

(* ------------------------ the request dispatcher ---------------------- *)
\* the wire responses of a converse() attempt
DispatchResponses ==
  { d \in NSResponses :
      /\ d.content = "Hello" /\ d.tool_calls = <<>> /\ d.finish_reason = "stop"
      /\ d.hasUsage /\ d.prompt_tokens = 7 }

InitDispatch ==
  /\ mode \in {"stream", "converse"}
  /\ config \in Configs
  /\ dpc = "start"
  /\ retries = 0
  /\ attempts = 0
  /\ error = <<>>
  /\ thrown = <<>>
  /\ elapsed = 0
  /\ pc = "idle"
  /\ done = FALSE
  /\ buffer = <<>>
  /\ contentBlockIndex = 0
  /\ toolCallAccumulator = <<>>
  /\ messageStartSent = FALSE
  /\ currentContentBlockOpen = FALSE
  /\ inputTokens = 0
  /\ outputTokens = 0
  /\ pendingEvents = <<>>
  /\ readerLocked = FALSE
  /\ lastResult = "none"
  /\ delivered = <<>>
  /\ lines = <<>>
  /\ readEnded = FALSE
  /\ nsIn = NoResponse
  /\ nsOut = NoOutput
  /\ cvIn = NoConversion
  /\ cvOut = NoConverted
  /\ calls = <<>>
  /\ iters = <<>>

\* variant: the retry is started without awaiting the delay
CatchNoDelay(msg) ==
  /\ error' = msg
  /\ IF handleError(msg, retries) = "retry"
     THEN dpc' = "start" /\ thrown' = thrown /\ retries' = retries + 1
     ELSE dpc' = "thrown" /\ thrown' = msg /\ retries' = retries
  /\ UNCHANGED elapsed

\* catch (error) { return this.handleError(error, props, retries) }, up to
\* the await of the retry delay or the throw
Catch(msg) ==
  /\ error' = msg
  /\ IF handleError(msg, retries) = "retry"
     THEN dpc' = "delay" /\ thrown' = thrown
     ELSE dpc' = "thrown" /\ thrown' = msg
  /\ UNCHANGED <<retries, elapsed>>

\* converse / converseStream up to `await fetch(...)`
StartAttempt ==
  /\ dpc = "start"
  /\ IF ConfigOk(config)
     THEN /\ attempts' = attempts + 1
          /\ dpc' = "fetching"
          /\ UNCHANGED <<retries, error, thrown, elapsed>>
     ELSE /\ Catch(ConfigErrorMsg)
          /\ UNCHANGED attempts
  /\ UNCHANGED <<mode, config, streamVars, nsIn, nsOut, convertVars,
                 callVars>>

\* fetch rejects
FetchRejects ==
  /\ dpc = "fetching"
  /\ \E msg \in NetErrors : Catch(msg)
  /\ UNCHANGED <<mode, config, attempts, streamVars, nsIn, nsOut, convertVars,
                 callVars>>

\* fetch resolves with a response that is not ok
FetchNotOk ==
  /\ dpc = "fetching"
  /\ \E status \in Statuses, body \in Bodies : Catch(ApiErrorMsg(status, body))
  /\ UNCHANGED <<mode, config, attempts, streamVars, nsIn, nsOut, convertVars,
                 callVars>>

\* converse: fetch resolves with an ok response, its JSON body is translated
FetchOkConverse ==
  /\ dpc = "fetching"
  /\ mode = "converse"
  /\ \E data \in DispatchResponses :
       LET out == convertNonStreamingResponse(data)
       IN /\ nsIn' = data
          /\ IF out.status = "error"
             THEN /\ Catch(NoChoicesMsg)
                  /\ nsOut' = nsOut
             ELSE /\ nsOut' = out
                  /\ dpc' = "returned"
                  /\ UNCHANGED <<retries, error, thrown, elapsed>>
  /\ UNCHANGED <<mode, config, attempts, streamVars, convertVars,
                 callVars>>

\* converse: fetch resolves with an ok response whose body is not JSON
FetchOkBadJson ==
  /\ dpc = "fetching"
  /\ mode = "converse"
  /\ \E msg \in JsonErrors : Catch(msg)
  /\ UNCHANGED <<mode, config, attempts, streamVars, nsIn, nsOut, convertVars,
                 callVars>>

\* converseStream: fetch resolves with an ok response, the stream is built
FetchOkStream ==
  /\ dpc = "fetching"
  /\ mode = "stream"
  /\ \E hasBody \in BOOLEAN :
       IF hasBody
       THEN /\ readerLocked' = TRUE
            /\ dpc' = "returned"
            /\ UNCHANGED <<retries, error, thrown, elapsed>>
       ELSE /\ Catch(NoBodyMsg)
            /\ readerLocked' = readerLocked
  /\ UNCHANGED <<mode, config, attempts, pc, done, buffer, contentBlockIndex,
                 toolCallAccumulator, messageStartSent,
                 currentContentBlockOpen, inputTokens, outputTokens,
                 pendingEvents, lastResult, delivered, lines, readEnded,
                 nsIn, nsOut, convertVars,
                 callVars>>

\* the retry delay has passed: this.converse(props, retries + 1)
DelayElapses ==
  /\ dpc = "delay"
  /\ elapsed' = elapsed + RETRY_DELAY
  /\ retries' = retries + 1
  /\ dpc' = "start"
  /\ UNCHANGED <<mode, config, attempts, error, thrown, streamVars, nsIn,
                 nsOut, convertVars,
                 callVars>>

NextDispatch ==
  \/ StartAttempt
  \/ FetchRejects
  \/ FetchNotOk
  \/ FetchOkConverse
  \/ FetchOkBadJson
  \/ FetchOkStream
  \/ DelayElapses

SpecDispatch == InitDispatch /\ [][NextDispatch]_vars
\* every await of the call resolves or rejects, and the timer fires
SpecDispatchFair == SpecDispatch /\ WF_vars(NextDispatch)

(* ------------------------- the converter, called ---------------------- *)
\* The converter functions are pure: one behaviour is one call.
BlockSeqs(blocks) == UNION { [1..n -> blocks] : n \in 0..MaxBlocks }

\* the content blocks of user messages
UserBlocks ==
  { TextBlock(""), TextBlock("a"), TextBlock("b"), ImageBlock,
    ToolResultBlock("call_1", TRUE,
                    << SubText("r"), SubText(""),
                       SubJson(JObj(<< Member("q", JNum("1")) >>)) >>),
    ToolResultBlock("", FALSE, <<>>) }
UserMessages ==
  { Message("user", FALSE, <<>>) } \cup
  { Message("user", TRUE, c) : c \in BlockSeqs(UserBlocks) }

\* the content blocks of assistant messages
AssistantBlocks ==
  { TextBlock(""), TextBlock("a"), TextBlock("b"), ImageBlock,
    ToolUse("call_1", "lookup", JObj(<< Member("q", JNum("1")) >>)),
    ToolUse("call_3", "lookup",
            JObj(<< Member("a", JObj(<< Member("q", JNum("1")) >>)),
                    Member("x", JArr(<< Member("", JNull),
                                        Member("", JStr(<<"q">>)) >>)) >>)),
    ToolUse("call_2", "calc", JObj(<<>>)),
    ToolUse("call_2", "calc", JStr(ArgNotJson)),
    ToolUse("call_2", "calc", JNum("0")),
    ToolUse("", "", JNull) }
AssistantMessages ==
  { Message("assistant", FALSE, <<>>) } \cup
  { Message("assistant", TRUE, c) : c \in BlockSeqs(AssistantBlocks) }

InitConvert ==
  /\ mode = "converse"
  /\ pc = "idle"
  /\ done = FALSE
  /\ buffer = <<>>
  /\ contentBlockIndex = 0
  /\ toolCallAccumulator = <<>>
  /\ messageStartSent = FALSE
  /\ currentContentBlockOpen = FALSE
  /\ inputTokens = 0
  /\ outputTokens = 0
  /\ pendingEvents = <<>>
  /\ readerLocked = FALSE
  /\ lastResult = "none"
  /\ delivered = <<>>
  /\ lines = <<>>
  /\ readEnded = FALSE
  /\ nsIn = NoResponse
  /\ nsOut = NoOutput
  /\ dpc = "start"
  /\ retries = 0
  /\ attempts = 0
  /\ config = [present |-> TRUE, apiKey |-> "sk-1", baseUrl |-> "http://h/v1"]
  /\ error = <<>>
  /\ thrown = <<>>
  /\ elapsed = 0
  /\ cvIn = NoConversion
  /\ cvOut = NoConverted
  /\ calls = <<>>
  /\ iters = <<>>

\* convertMessagesToOpenAI([msg]) for a user message
ConvertUser ==
  /\ cvIn.op = "none"
  /\ \E msg \in UserMessages :
       /\ cvIn' = [NoConversion EXCEPT !.op = "user", !.msg = msg]
       /\ cvOut' = [NoConverted EXCEPT
                      !.wire = convertMessagesToOpenAI(<<msg>>, "1000")]
  /\ UNCHANGED <<mode, streamVars, nsIn, nsOut, dispatchVars, callVars>>

\* convertMessagesToOpenAI([msg]) for an assistant message
ConvertAssistant ==
  /\ cvIn.op = "none"
  /\ \E msg \in AssistantMessages, now \in Clock :
       /\ cvIn' = [NoConversion EXCEPT !.op = "assistant", !.msg = msg,
                                       !.now = now]
       /\ cvOut' = [NoConverted EXCEPT
                      !.wire = convertMessagesToOpenAI(<<msg>>, now)]
  /\ UNCHANGED <<mode, streamVars, nsIn, nsOut, dispatchVars, callVars>>

\* the system blocks, the tools and the messages of requests
SystemBlocks ==
  { TextBlock(""), TextBlock("a"), TextBlock("b"), CachePointBlock }
Systems == { NoSystem } \cup { System(b) : b \in BlockSeqs(SystemBlocks) }
Tools ==
  { Tool(FALSE, NoStr, NoStr, JNull),
    Tool(TRUE, Str("lookup"), Str("find"),
         JObj(<< Member("type", JStr(<<"object">>)) >>)),
    Tool(TRUE, Str("calc"), NoStr, JNull) }
ToolConfigs == { NoToolConfig } \cup { ToolConfig(t) : t \in BlockSeqs(Tools) }
RequestMessages ==
  { Message("user", TRUE,
            << ToolResultBlock("call_1", FALSE, <<>>), TextBlock("a") >>),
    Message("assistant", TRUE, << TextBlock("b") >>),
    Message("user", FALSE, <<>>) }
MessageSeqs == UNION { [1..n -> RequestMessages] : n \in 0..MaxMessages }

\* the calls of buildOpenAIRequest: the inference configurations, the
\* system prompts with the message lists, the tool configurations
RequestParams ==
  { [NoParams EXCEPT !.cfg = cfg] : cfg \in InferenceConfigs }
  \cup { [NoParams EXCEPT !.system = sys, !.messages = m] :
           sys \in Systems, m \in MessageSeqs }
  \cup { [NoParams EXCEPT !.toolConfig = tc, !.stream = f] :
           tc \in ToolConfigs, f \in {NoFlag, Flag(FALSE)} }

\* buildOpenAIRequest
BuildRequest ==
  /\ cvIn.op = "none"
  /\ \E params \in RequestParams :
       LET request == buildOpenAIRequest(params, "1000")
       IN /\ cvIn' = [NoConversion EXCEPT !.op = "request",
                                          !.cfg = params.cfg,
                                          !.params = params]
          /\ cvOut' = [NoConverted EXCEPT !.req = request.inference,
                                          !.request = request]
  /\ UNCHANGED <<mode, streamVars, nsIn, nsOut, dispatchVars, callVars>>

\* an assistant message converted, and the wire message translated back
RoundTrip ==
  /\ cvIn.op = "none"
  /\ \E msg \in AssistantMessages, now \in Clock :
       LET wire == convertMessagesToOpenAI(<<msg>>, now)
       IN /\ cvIn' = [NoConversion EXCEPT !.op = "roundtrip", !.msg = msg,
                                          !.now = now]
          /\ cvOut' =
               [NoConverted EXCEPT
                  !.wire = wire,
                  !.back =
                    IF wire = <<>> THEN <<>>
                    ELSE convertNonStreamingResponse(AsResponse(wire[1])).content]
  /\ UNCHANGED <<mode, streamVars, nsIn, nsOut, dispatchVars, callVars>>

NextConvert == ConvertUser \/ ConvertAssistant \/ BuildRequest \/ RoundTrip

SpecConvert == InitConvert /\ [][NextConvert]_vars

(* ------------------- concurrent calls and iterators ------------------- *)
\* The calls and the iterators in the system: two of each at most.
Slots == {1, 2}

KindOf(line) == CHOOSE k \in 1..NK : LineKinds[k] = line
RECURSIVE BytesOf(_)
\* the bytes of a body made of the given lines
BytesOf(ls) ==
  IF ls = <<>> THEN <<>> ELSE FullLine(KindOf(Head(ls))) \o BytesOf(Tail(ls))

\* a logical call: the dispatcher's position and arguments, the bytes of
\* the response body it will receive and the bytes its reader still holds
NewCall(bytes) ==
  [dpc |-> "start", retries |-> 0, attempts |-> 0, error |-> <<>>,
   body |-> bytes, left |-> bytes]
ReturnedCall(bytes) ==
  [NewCall(bytes) EXCEPT !.dpc = "returned", !.attempts = 1]

\* an iterator: the closure [Symbol.asyncIterator]() creates, with the
\* events its consumer received and the bytes its reads returned
NoIter ==
  [open |-> FALSE, call |-> 0, pc |-> "idle", sess |-> InitSess,
   buffer |-> <<>>, delivered |-> <<>>, read |-> <<>>,
   lastResult |-> "none"]
NewIter(c) == [NoIter EXCEPT !.open = TRUE, !.call = c]

\* return { done: false, value: pendingEvents.shift() }
Deliver(it) ==
  [it EXCEPT !.delivered = Append(@, Head(it.sess.pendingEvents)),
             !.sess.pendingEvents = Tail(@),
             !.lastResult = "value",
             !.pc = "idle"]

\* variant: next() reads whenever the queue is empty
ItNextIgnoresDone(it) ==
  IF it.sess.pendingEvents # <<>> THEN Deliver(it)
  ELSE [it EXCEPT !.pc = "reading"]

\* next() up to its first await
ItNext(it) ==
  IF it.sess.pendingEvents # <<>> THEN Deliver(it)
  ELSE IF it.sess.done THEN [it EXCEPT !.lastResult = "done"]
  ELSE [it EXCEPT !.pc = "reading"]

\* reader.read() resolved with bytes: decode, process, return or read on
ItChunk(it, chunk, now) ==
  LET segs == SplitNL(it.buffer \o chunk, <<>>)
      s == ProcessLines(it.sess, SegLines(Front(segs)), now)
      it1 == [it EXCEPT !.buffer = Last(segs), !.sess = s,
                        !.read = @ \o chunk]
  IN IF s.pendingEvents # <<>> THEN Deliver(it1) ELSE it1

\* variant: the rest of the buffer is processed as a last line
ItDoneProcessesBuffer(it) ==
  Deliver([it EXCEPT
             !.sess = EndOfStream(ProcessLine(it.sess, SegLine(it.buffer),
                                              "1000"))])

\* reader.read() resolved with done
ItDone(it) == Deliver([it EXCEPT !.sess = EndOfStream(it.sess)])

\* variant: the retry counter is a field of the service
CallRetryShared(cs, c) ==
  [i \in DOMAIN cs |->
     [cs[i] EXCEPT !.retries = @ + 1,
                   !.dpc = IF i = c THEN "start" ELSE @]]

\* this.converseStream(props, retries + 1)
CallRetry(cs, c) ==
  [cs EXCEPT ![c].retries = @ + 1, ![c].dpc = "start"]

\* variant: a failed read is handed to handleStreamError
ReadFailureRetried(cs, c) ==
  [cs EXCEPT ![c].error = << "network error" >>,
             ![c].dpc = IF cs[c].retries >= MAX_RETRIES THEN "thrown"
                        ELSE "delay"]

\* what a rejected reader.read() does to the calls: nothing, the rejection
\* leaves next() and no catch of converseStream is on the stack
ReadFailure(cs, c) == cs

\* errors of an attempt in the concurrent view
CallErrors ==
  { ApiErrorMsg(<<"5", "0", "3">>, <<>>), ApiErrorMsg(<<"4", "0", "0">>, <<>>) }

\* converseStream up to `await fetch(...)`
CallAttempt(c) ==
  /\ calls[c].dpc = "start"
  /\ ConfigOk(config)
  /\ calls' = [calls EXCEPT ![c].dpc = "fetching", ![c].attempts = @ + 1]
  /\ UNCHANGED <<iters, singleVars>>

\* the attempt fails; handleStreamError decides
CallFails(c) ==
  /\ calls[c].dpc = "fetching"
  /\ \E msg \in CallErrors :
       calls' = [calls EXCEPT
                   ![c].error = msg,
                   ![c].dpc = IF handleError(msg, calls[c].retries) = "retry"
                              THEN "delay" ELSE "thrown"]
  /\ UNCHANGED <<iters, singleVars>>

\* the retry delay of call c has passed
CallDelay(c) ==
  /\ calls[c].dpc = "delay"
  /\ calls' = CallRetry(calls, c)
  /\ UNCHANGED <<iters, singleVars>>

\* the response is ok and has a body: the stream is returned
CallReturns(c) ==
  /\ calls[c].dpc = "fetching"
  /\ calls' = [calls EXCEPT ![c].dpc = "returned"]
  /\ UNCHANGED <<iters, singleVars>>

\* the consumer calls stream[Symbol.asyncIterator]()
OpenIterator(k, c) ==
  /\ ~iters[k].open
  /\ calls[c].dpc = "returned"
  /\ iters' = [iters EXCEPT ![k] = NewIter(c)]
  /\ UNCHANGED <<calls, singleVars>>

\* the consumer of iterator k calls next()
IterNext(k) ==
  /\ iters[k].open
  /\ iters[k].pc = "idle"
  /\ iters[k].lastResult \notin {"done", "throw"}
  /\ iters' = [iters EXCEPT ![k] = ItNext(@)]
  /\ UNCHANGED <<calls, singleVars>>

\* the read of iterator k resolves with some of the bytes left
IterReadChunk(k) ==
  /\ iters[k].open
  /\ iters[k].pc = "reading"
  /\ LET c == iters[k].call
     IN /\ calls[c].left # <<>>
        /\ \E n \in 1..Len(calls[c].left), now \in Clock :
             /\ iters' = [iters EXCEPT
                            ![k] = ItChunk(@, SubSeq(calls[c].left, 1, n), now)]
             /\ calls' = [calls EXCEPT
                            ![c].left = SubSeq(@, n + 1, Len(@))]
  /\ UNCHANGED singleVars

\* the read of iterator k resolves with done
IterReadDone(k) ==
  /\ iters[k].open
  /\ iters[k].pc = "reading"
  /\ calls[iters[k].call].left = <<>>
  /\ iters' = [iters EXCEPT ![k] = ItDone(@)]
  /\ UNCHANGED <<calls, singleVars>>

\* the read of iterator k rejects
IterReadFail(k) ==
  /\ iters[k].open
  /\ iters[k].pc = "reading"
  /\ iters' = [iters EXCEPT ![k].pc = "failed", ![k].lastResult = "throw"]
  /\ calls' = ReadFailure(calls, iters[k].call)
  /\ UNCHANGED singleVars

\* the single-call view at rest
SingleIdle ==
  /\ mode = "stream"
  /\ pc = "idle"
  /\ done = FALSE
  /\ buffer = <<>>
  /\ contentBlockIndex = 0
  /\ toolCallAccumulator = <<>>
  /\ messageStartSent = FALSE
  /\ currentContentBlockOpen = FALSE
  /\ inputTokens = 0
  /\ outputTokens = 0
  /\ pendingEvents = <<>>
  /\ readerLocked = FALSE
  /\ lastResult = "none"
  /\ delivered = <<>>
  /\ lines = <<>>
  /\ readEnded = FALSE
  /\ nsIn = NoResponse
  /\ nsOut = NoOutput
  /\ dpc = "start"
  /\ retries = 0
  /\ attempts = 0
  /\ config = [present |-> TRUE, apiKey |-> "sk-1", baseUrl |-> "http://h/v1"]
  /\ error = <<>>
  /\ thrown = <<>>
  /\ elapsed = 0
  /\ cvIn = NoConversion
  /\ cvOut = NoConverted

\* the lines of the bodies whose bytes are fixed in advance
BodyLines ==
  { TextLine("Hello"),
    ToolLine(<< TC(TRUE, 0, "call_1", "lookup", "{\"q\":1}") >>),
    [TextLine("!") EXCEPT !.finish_reason = "length"] }
TerminatedBodies ==
  { BytesOf(ls) : ls \in UNION { [1..n -> BodyLines] : n \in 0..MaxBodyLines } }
\* every line ends with a newline, or the last line does not
StreamBodies ==
  TerminatedBodies \cup { Front(b) : b \in TerminatedBodies \ { <<>> } }

\* one returned stream, its body not yet read, and no iterator so far
InitIters ==
  /\ SingleIdle
  /\ \E bytes \in StreamBodies : calls = << ReturnedCall(bytes) >>
  /\ iters = [k \in Slots |-> NoIter]

NextIters ==
  \E k \in Slots :
    \/ OpenIterator(k, 1)
    \/ IterNext(k)
    \/ IterReadChunk(k)
    \/ IterReadDone(k)

SpecIters == InitIters /\ [][NextIters]_vars

\* two calls on one service instance, each with a one-line body of its own
InitCalls ==
  /\ SingleIdle
  /\ calls = << NewCall(BytesOf(<< TextLine("Hello") >>)),
                NewCall(BytesOf(<< [TextLine("!") EXCEPT
                                      !.finish_reason = "length"] >>)) >>
  /\ iters = [k \in Slots |-> NoIter]

NextCalls ==
  \E c \in Slots :
    \/ CallAttempt(c)
    \/ CallFails(c)
    \/ CallDelay(c)
    \/ CallReturns(c)
    \/ OpenIterator(c, c)
    \/ IterNext(c)
    \/ IterReadChunk(c)
    \/ IterReadDone(c)
    \/ IterReadFail(c)

SpecCalls == InitCalls /\ [][NextCalls]_vars

(* ------------------------- the event sequence ------------------------- *)
\* every event the session has produced, in the order it was queued
All == delivered \o pendingEvents
\* completion has been reported to the consumer
Exhausted == mode = "stream" /\ lastResult = "done"

IsStart(e) == e.type = "contentBlockStart"
IsDelta(e) == e.type = "contentBlockDelta"
IsStop(e) == e.type = "contentBlockStop"
Count(E, t) == Cardinality({i \in 1..Len(E) : E[i].type = t})
StopsOf(E, p) ==
  {q \in (p + 1)..Len(E) :
     IsStop(E[q]) /\ E[q].contentBlockIndex = E[p].contentBlockIndex}
\* a line that parsed and whose first choice carries a delta object
HasDelta(l) == l.prefix /\ l.payload = "json" /\ l.hasChoice /\ l.hasDelta

(* C1: every ContentBlockStart with index i is followed by exactly one     *)
(* ContentBlockStop with index i, every ContentBlockDelta for i lies       *)
(* between them, the stop for i comes before any start with a higher       *)
(* index, no stop is emitted for an index that was never started, and no   *)
(* block is open when the sequence is exhausted.                           *)
C1_BlockLifecycle ==
  /\ \A p \in 1..Len(All) : IsStart(All[p]) =>
       /\ Cardinality(StopsOf(All, p)) <= 1
       /\ Exhausted => Cardinality(StopsOf(All, p)) = 1
       /\ \A q \in (p + 1)..Len(All) :
            (IsStart(All[q])
             /\ All[q].contentBlockIndex > All[p].contentBlockIndex)
            => \E r \in StopsOf(All, p) : r < q
  /\ \A d \in 1..Len(All) : IsDelta(All[d]) =>
       \E p \in 1..(d - 1) :
         /\ IsStart(All[p])
         /\ All[p].contentBlockIndex = All[d].contentBlockIndex
         /\ \A r \in StopsOf(All, p) : r > d
  /\ \A q \in 1..Len(All) : IsStop(All[q]) =>
       \E p \in 1..(q - 1) :
         IsStart(All[p]) /\ All[p].contentBlockIndex = All[q].contentBlockIndex

(* C2: the indices of successive ContentBlockStart events are exactly      *)
(* 0, 1, 2, ... in emission order, so no index is used by two blocks.      *)
C2_StartIndicesSequential ==
  \A p \in 1..Len(All) : IsStart(All[p]) =>
    All[p].contentBlockIndex
      = Cardinality({q \in 1..(p - 1) : IsStart(All[q])})

(* C3: a session iterated to exhaustion has emitted exactly one            *)
(* MessageStop and exactly one Metadata, the Metadata right after the      *)
(* MessageStop, and nothing after the Metadata.                            *)
C3_OneStopOneMetadataLast ==
  Exhausted =>
    /\ Count(delivered, "messageStop") = 1
    /\ Count(delivered, "metadata") = 1
    /\ Len(delivered) >= 2
    /\ delivered[Len(delivered) - 1].type = "messageStop"
    /\ delivered[Len(delivered)].type = "metadata"

(* C4: a session emits at most one MessageStart; it is emitted exactly     *)
(* when a parsed chunk whose first choice carries a delta has been         *)
(* processed, it has role assistant, and it is the first event of the      *)
(* session.                                                                *)
C4_MessageStartOnceAndFirst ==
  LET seen == \E i \in 1..Len(lines) : HasDelta(lines[i])
  IN /\ seen => (All # <<>> /\ All[1] = MessageStart)
     /\ \A i \in 1..Len(All) : All[i].type = "messageStart" =>
          i = 1 /\ seen /\ All[i].role = "assistant"
     /\ messageStartSent = seen

\* C4's case: a second delta chunk was processed after the MessageStart
\* had been delivered, and further events followed it
C4_Witness ==
  /\ Len(delivered) >= 3
  /\ delivered[1] = MessageStart
  /\ Cardinality({i \in 1..Len(lines) : HasDelta(lines[i])}) >= 2
  /\ \E i \in 1..Len(pendingEvents) : IsDelta(pendingEvents[i])

(* C5: the finish-reason mapping is the same total function in both        *)
(* translators: exactly "tool_calls" gives tool_use, exactly "length"      *)
(* gives max_tokens, every other value (also "stop", other spellings, and  *)
(* no finish_reason at all) gives end_turn.                                *)
FinishTable(fr) ==
  CASE fr = "tool_calls" -> "tool_use"
    [] fr = "length" -> "max_tokens"
    [] OTHER -> "end_turn"
StopReasons ==
  LET stops == SelectSeq(All, LAMBDA e : e.type = "messageStop")
  IN [i \in 1..Len(stops) |-> stops[i].stopReason]
FinishSeen ==
  SelectSeq(lines, LAMBDA l : HasDelta(l) /\ l.finish_reason # "")
C5_FinishReasonMapping ==
  /\ mode = "stream" =>
       StopReasons
         = [i \in 1..Len(FinishSeen) |-> FinishTable(FinishSeen[i].finish_reason)]
           \o (IF readEnded THEN << "end_turn" >> ELSE <<>>)
  /\ nsOut.status = "ok" => nsOut.stopReason = FinishTable(nsIn.finish_reason)

\* C5's case: a differently-cased spelling was mapped and delivered
C5_Witness ==
  /\ ~readEnded
  /\ \E i \in 1..Len(lines) : lines[i].finish_reason = "Tool_Calls"
  /\ \E i \in 1..Len(delivered) :
       delivered[i].type = "messageStop" /\ delivered[i].stopReason = "end_turn"

(* C6: a `data: ` line that is not valid JSON produces no event, raises no *)
(* error and changes no session state; the valid lines around it are       *)
(* processed exactly as if it were absent.                                 *)
IsCorrupt(l) == l.prefix /\ l.payload = "corrupt"
NewLines == SubSeq(lines', Len(lines) + 1, Len(lines'))
\* the step is a read that returned bytes
ReadStep == lines' # lines \/ buffer' # buffer
C6_CorruptLineSkipped ==
  [][ ReadStep =>
        /\ lastResult' # "throw"
        /\ \E now \in Clock :
             LET s == ProcessLines(Sess,
                        SelectSeq(NewLines, LAMBDA l : ~IsCorrupt(l)), now)
             IN /\ done' = s.done
                /\ contentBlockIndex' = s.contentBlockIndex
                /\ toolCallAccumulator' = s.toolCallAccumulator
                /\ messageStartSent' = s.messageStartSent
                /\ currentContentBlockOpen' = s.currentContentBlockOpen
                /\ inputTokens' = s.inputTokens
                /\ outputTokens' = s.outputTokens
                /\ delivered' \o pendingEvents' = delivered \o s.pendingEvents
    ]_vars

\* C6's case: a corrupt line between two text deltas, both deltas delivered
C6_Witness ==
  /\ Len(lines) = 3
  /\ lines[1] = TextLine("Hello")
  /\ IsCorrupt(lines[2])
  /\ lines[3] = TextLine("Hello")
  /\ Count(delivered, "contentBlockDelta") = 2

(* C7: when the byte stream ends without a finish_reason, the session      *)
(* closes the open text block with a ContentBlockStop for that block's own *)
(* index, flushes every accumulated tool call as a start / optional delta  *)
(* / stop triple at a fresh index each, then emits MessageStop end_turn    *)
(* and Metadata with the current counters, and the accumulator map is      *)
(* empty afterwards.                                                       *)
C7_EndOfStreamFlush ==
  [][ (readEnded' /\ ~readEnded) =>
        LET close == IF currentContentBlockOpen
                     THEN << BlockStop(contentBlockIndex) >> ELSE <<>>
            fresh == IF currentContentBlockOpen
                     THEN contentBlockIndex + 1 ELSE contentBlockIndex
        IN /\ delivered' \o pendingEvents'
                = All \o close \o FlushEvents(toolCallAccumulator, fresh)
                      \o << MessageStop("end_turn"),
                            Metadata(inputTokens, outputTokens) >>
           /\ toolCallAccumulator' = <<>>
    ]_vars

(* C8: consecutive chunks whose delta.content is a string, with no         *)
(* tool-call delta in between, give exactly one ContentBlockStart{text}    *)
(* and then one ContentBlockDelta per chunk, in arrival order, all with    *)
(* the same index and each with that chunk's fragment; a chunk whose       *)
(* delta.content is null or absent gives no text event.                    *)
HasContent(l) == HasDelta(l) /\ l.contentTag = "string"
ContentAt == SelectSeq([i \in 1..Len(lines) |-> <<i, lines[i]>>],
                       LAMBDA x : HasContent(x[2]))
TextDeltaAt == SelectSeq([i \in 1..Len(All) |-> <<i, All[i]>>],
                         LAMBDA x : IsDelta(x[2]) /\ x[2].kind = "text")
C9_ReadOnlyWhenQueueEmpty ==
  [][ /\ pc' = "reading" => pendingEvents' = <<>>
      /\ (pc = "idle" /\ pendingEvents # <<>> /\ pc' # "abandoned") =>
           /\ pc' = "idle"
           /\ delivered' = Append(delivered, Head(pendingEvents))
           /\ pendingEvents' = Tail(pendingEvents)
           /\ lines' = lines /\ readEnded' = readEnded /\ buffer' = buffer
      /\ (ReadStep \/ readEnded' # readEnded) => pc = "reading"
      /\ (pc' = "reading" /\ pc # "reading") => pc = "idle"
    ]_vars

\* C9's case: events of one decoded chunk are being answered from the queue
C9_Witness ==
  /\ pc = "idle"
  /\ Len(lines) = 1
  /\ Len(delivered) >= 2
  /\ pendingEvents # <<>>
  /\ ~done

(* C10: the byte-stream reader is released on every way the session ends:  *)
(* exhaustion through a finish_reason or through the end of the byte       *)
(* stream, the consumer stopping early, and a failed byte read.            *)
C10_ReaderReleased ==
  (mode = "stream" /\ (lastResult = "done" \/ pc \in {"failed", "abandoned"}))
    => ~readerLocked

(* ------------------------- the retry dispatcher ----------------------- *)
Settled == dpc \in {"returned", "thrown"}

\* C11: one call issues at most MAX_RETRIES + 1 = 6 HTTP attempts; a call
\* that ends with a retryable error has made exactly 6 attempts and
\* surfaces the error of the last attempt; every call ends.
C11_AtMostSixAttempts ==
  /\ [](attempts <= MAX_RETRIES + 1)
  /\ []((dpc = "thrown" /\ IsRetryable(error))
          => (attempts = MAX_RETRIES + 1 /\ retries = MAX_RETRIES
              /\ thrown = error))
  /\ <>Settled

C11_Witness ==
  /\ dpc = "thrown"
  /\ IsRetryable(error)
  /\ attempts = MAX_RETRIES + 1
  /\ elapsed = MAX_RETRIES * RETRY_DELAY

\* the step in which a failed attempt's error is caught and handled
CatchStep == dpc \in {"start", "fetching"} /\ dpc' \in {"delay", "thrown"}
HasDigit5(msg) == \E i \in DOMAIN msg : msg[i] = "5"
Has429(msg) ==
  \E i \in DOMAIN msg :
    i + 2 <= Len(msg) /\ msg[i] = "4" /\ msg[i + 1] = "2" /\ msg[i + 2] = "9"

NotConfigured ==
  ~config.present \/ config.apiKey = "" \/ config.baseUrl = ""

C14_NoChoiceIsHardError ==
  (mode = "converse" /\ nsIn # NoResponse /\ ~nsIn.hasChoice) =>
    /\ dpc = "thrown"
    /\ thrown = NoChoicesMsg
    /\ nsOut = NoOutput
    /\ attempts = retries + 1

C14_Witness ==
  /\ mode = "converse"
  /\ nsIn # NoResponse
  /\ ~nsIn.hasChoice
  /\ dpc = "thrown"
  /\ retries = 2
  /\ attempts = 3

(* --------------------- the non-streaming translator ------------------- *)
\* what JSON.parse gives for the argument texts in use, written out
ExpectedInput(arguments) ==
  CASE arguments = ArgObjQ -> JObj(<< Member("q", JNum("1")) >>)
    [] arguments = ArgEmptyObj -> JObj(<<>>)
    [] arguments = ArgObjNested ->
         JObj(<< Member("a", JObj(<< Member("q", JNum("1")) >>)),
                 Member("x", JArr(<< Member("", JNull),
                                     Member("", JStr(<<"q">>)) >>)) >>)
    [] OTHER -> JObj(<< Member("raw", JStr(arguments)) >>)

\* C15: the non-streaming translator returns the content blocks in this
\* order: one Text block iff message.content is truthy, then one ToolUse
\* block per tool_calls entry in order, with the entry's id and name and the
\* parsed arguments, or {raw: text} for arguments that do not parse; such
\* arguments never make the translation fail.
C15_NonStreamingContentBlocks ==
  (mode = "converse" /\ nsIn.hasChoice) =>
    /\ nsOut.status = "ok"
    /\ LET c == nsOut.content
           k == IF nsIn.content # "" THEN 1 ELSE 0
       IN /\ Len(c) = k + Len(nsIn.tool_calls)
          /\ (k = 1) => (c[1].kind = "text" /\ c[1].text = nsIn.content)
          /\ \A i \in DOMAIN nsIn.tool_calls :
               /\ c[k + i].kind = "toolUse"
               /\ c[k + i].toolUseId = nsIn.tool_calls[i].id
               /\ c[k + i].name = nsIn.tool_calls[i].name
               /\ c[k + i].input = ExpectedInput(nsIn.tool_calls[i].arguments)

C15_Witness ==
  /\ mode = "converse"
  /\ nsOut.status = "ok"
  /\ nsIn.content = "Hello"
  /\ Len(nsIn.tool_calls) = 3
  /\ Len(nsOut.content) = 4
  /\ nsOut.content[2].input = JObj(<< Member("raw", JStr(<<>>)) >>)
  /\ nsOut.content[3].input.m[1].k = "a"

(* ------------------------ the outbound converter ---------------------- *)
IsText(block) == block.kind = "text"
TextsOf(blocks) == [i \in DOMAIN blocks |-> blocks[i].text]
\* the blocks of the message the converter was called with
InBlocks == IF cvIn.msg.hasContent THEN cvIn.msg.content ELSE <<>>
UserWire(content) == WireMessage("user", "string", content, "", FALSE, <<>>)
\* the first n wire messages are the tool messages of the toolResult blocks
ToolMessagesFirst(trs) ==
  /\ Len(cvOut.wire) >= Len(trs)
  /\ \A i \in DOMAIN trs :
       /\ cvOut.wire[i].role = "tool"
       /\ cvOut.wire[i].tool_call_id = trs[i].toolUseId

\* C16 as stated: a user message gives one wire tool message per ToolResult
\* block in order (tool_call_id = toolUseId or ""), then one wire user
\* message with all Text blocks joined by newline if any Text block is
\* present; with neither Text nor ToolResult blocks it gives exactly one
\* wire user message with content "", so every user turn gives at least
\* one wire message.
C16_UserMessage ==
  (cvIn.op = "user") =>
    LET trs == SelectSeq(InBlocks, IsToolResult)
        texts == SelectSeq(InBlocks, IsText)
    IN /\ ToolMessagesFirst(trs)
       /\ cvOut.wire # <<>>
       /\ SubSeq(cvOut.wire, Len(trs) + 1, Len(cvOut.wire)) =
            IF Len(texts) > 0 THEN << UserWire(JoinNL(TextsOf(texts))) >>
            ELSE IF Len(trs) = 0 THEN << UserWire("") >>
            ELSE <<>>

\* C16 as amended: for a user message whose content is a block array, the
\* wire tool messages come first as stated, then one wire user message with
\* the non-empty texts joined by newline if any Text block has a non-empty
\* text; with no non-empty text and no ToolResult block exactly one wire
\* user message with content ""; a message without a content array gives
\* no wire message.
C16_UserMessageNonEmptyText ==
  (cvIn.op = "user") =>
    LET trs == SelectSeq(InBlocks, IsToolResult)
        texts == SelectSeq(TextsOf(SelectSeq(InBlocks, IsText)), NonEmpty)
    IN IF ~cvIn.msg.hasContent
       THEN cvOut.wire = <<>>
       ELSE /\ ToolMessagesFirst(trs)
            /\ cvOut.wire # <<>>
            /\ SubSeq(cvOut.wire, Len(trs) + 1, Len(cvOut.wire)) =
                 IF Len(texts) > 0 THEN << UserWire(JoinNL(texts)) >>
                 ELSE IF Len(trs) = 0 THEN << UserWire("") >>
                 ELSE <<>>

C16_Witness ==
  /\ cvIn.op = "user"
  /\ cvIn.msg.hasContent
  /\ Len(cvIn.msg.content) = 3
  /\ cvIn.msg.content[1] = TextBlock("")
  /\ IsToolResult(cvIn.msg.content[2])
  /\ cvIn.msg.content[3] = TextBlock("b")
  /\ Len(cvOut.wire) = 2
  /\ cvOut.wire[1].role = "tool"
  /\ cvOut.wire[2] = UserWire("b")

IsToolUse(block) == block.kind = "toolUse"
ObjQ == JObj(<< Member("q", JNum("1")) >>)
ObjNested ==
  JObj(<< Member("a", ObjQ),
          Member("x", JArr(<< Member("", JNull), Member("", JStr(<<"q">>)) >>)) >>)
\* the JSON serialization of the inputs in use, written out
Serialized(input) ==
  CASE input = ObjQ -> ArgObjQ
    [] input = ObjNested -> ArgObjNested
    [] input = JNum("0") -> << "0" >>
    [] input = JNull -> << "null" >>
    [] input = JObj(<<>>) -> ArgEmptyObj
    [] OTHER -> << "?" >>
\* the wire tool calls are those of the toolUse blocks, in order
ToolCallsOf(wireCalls, uses, falsyAs) ==
  /\ Len(wireCalls) = Len(uses)
  /\ \A i \in DOMAIN uses :
       /\ IF uses[i].toolUseId # "" THEN wireCalls[i].id = uses[i].toolUseId
          ELSE wireCalls[i].id \in { "call_" \o now : now \in Clock }
       /\ wireCalls[i].name = uses[i].name
       /\ wireCalls[i].arguments =
            IF uses[i].input.t = "str" THEN uses[i].input.s
            ELSE IF uses[i].input \in {JNull, JNum("0")} THEN falsyAs[uses[i].input.t]
            ELSE Serialized(uses[i].input)

\* C17 as stated: an assistant message gives exactly one wire assistant
\* message; its content is the Text blocks' text joined by newline, or null
\* without a Text block; tool_calls is present iff there is a ToolUse block
\* and lists one call per ToolUse block in order with id = toolUseId or a
\* generated id, the block's name, and arguments = the input itself when it
\* is a string, else its JSON serialization.
C17_AssistantMessage ==
  (cvIn.op = "assistant") =>
    LET texts == TextsOf(SelectSeq(InBlocks, IsText))
        uses == SelectSeq(InBlocks, IsToolUse)
    IN /\ Len(cvOut.wire) = 1
       /\ cvOut.wire[1].role = "assistant"
       /\ IF Len(texts) > 0
          THEN /\ cvOut.wire[1].contentTag = "string"
               /\ cvOut.wire[1].content = JoinNL(texts)
          ELSE cvOut.wire[1].contentTag = "null"
       /\ cvOut.wire[1].hasToolCalls <=> (Len(uses) > 0)
       /\ ToolCallsOf(cvOut.wire[1].tool_calls, uses,
                      [null |-> << "null" >>, num |-> << "0" >>])

\* C17 as amended: for an assistant message whose content is a block array,
\* as stated with the Text blocks of non-empty text in place of the Text
\* blocks, and with arguments "{}" for an input that is not a string and is
\* falsy (absent, null, 0); a message without a content array gives no wire
\* message.
C17_AssistantMessageTruthy ==
  (cvIn.op = "assistant") =>
    LET texts == SelectSeq(TextsOf(SelectSeq(InBlocks, IsText)), NonEmpty)
        uses == SelectSeq(InBlocks, IsToolUse)
    IN IF ~cvIn.msg.hasContent
       THEN cvOut.wire = <<>>
       ELSE /\ Len(cvOut.wire) = 1
            /\ cvOut.wire[1].role = "assistant"
            /\ IF Len(texts) > 0
               THEN /\ cvOut.wire[1].contentTag = "string"
                    /\ cvOut.wire[1].content = JoinNL(texts)
               ELSE cvOut.wire[1].contentTag = "null"
            /\ cvOut.wire[1].hasToolCalls <=> (Len(uses) > 0)
            /\ ToolCallsOf(cvOut.wire[1].tool_calls, uses,
                           [null |-> ArgEmptyObj, num |-> ArgEmptyObj])

C17_Witness ==
  /\ cvIn.op = "assistant"
  /\ cvIn.msg.hasContent
  /\ cvIn.now = "1001"
  /\ cvIn.msg.content =
       << TextBlock(""), ToolUse("call_3", "lookup", ObjNested),
          ToolUse("", "", JNull) >>
  /\ cvOut.wire[1].contentTag = "null"
  /\ cvOut.wire[1].tool_calls[1].arguments = ArgObjNested
  /\ cvOut.wire[1].tool_calls[2].id = "call_1001"
  /\ cvOut.wire[1].tool_calls[2].arguments = ArgEmptyObj

\* C18: max_tokens is present iff maxTokens is defined, temperature iff
\* temperature is defined, top_p iff topP is defined; a present field has
\* the defined value, 0 included; the three are independent and nothing is
\* filled with a default.
C18_InferenceParamsCopied ==
  (cvIn.op = "request") =>
    /\ cvOut.req.max_tokens =
         (IF cvIn.cfg.has THEN cvIn.cfg.maxTokens ELSE Undefined)
    /\ cvOut.req.temperature =
         (IF cvIn.cfg.has THEN cvIn.cfg.temperature ELSE Undefined)
    /\ cvOut.req.top_p = (IF cvIn.cfg.has THEN cvIn.cfg.topP ELSE Undefined)

\* the messages C19 is about: one Text block of non-empty text, and ToolUse
\* blocks with a toolUseId, a name and an object as input
RoundTripInput ==
  /\ cvIn.msg.hasContent
  /\ Len(SelectSeq(InBlocks, IsText)) = 1
  /\ \A i \in DOMAIN InBlocks :
       \/ IsText(InBlocks[i]) /\ InBlocks[i].text # ""
       \/ /\ IsToolUse(InBlocks[i])
          /\ InBlocks[i].toolUseId # ""
          /\ InBlocks[i].name # ""
          /\ InBlocks[i].input.t = "obj"

\* C19: an assistant message of one non-empty Text block and ToolUse blocks
\* with id, name and object input, converted to the wire and translated
\* back as the first choice's message, gives content blocks with the same
\* text and, in the same order, the same tool-call id, name and input.
C19_RoundTrip ==
  (cvIn.op = "roundtrip" /\ RoundTripInput) =>
    /\ Len(cvOut.back) = Len(InBlocks)
    /\ SelectSeq(cvOut.back, IsText) = SelectSeq(InBlocks, IsText)
    /\ SelectSeq(cvOut.back, IsToolUse) = SelectSeq(InBlocks, IsToolUse)

C19_Witness ==
  /\ cvIn.op = "roundtrip"
  /\ RoundTripInput
  /\ cvIn.msg.content =
       << ToolUse("call_3", "lookup", ObjNested), TextBlock("a"),
          ToolUse("call_2", "calc", JObj(<<>>)) >>
  /\ cvOut.back =
       << TextBlock("a"), ToolUse("call_3", "lookup", ObjNested),
          ToolUse("call_2", "calc", JObj(<<>>)) >>

(* ------------------------- the tool-call flush ------------------------ *)
IsToolStart(e) == IsStart(e) /\ e.kind = "toolUse"
IsToolDelta(e) == IsDelta(e) /\ e.kind = "toolUse"
\* a processed chunk with a finish_reason
IsFinish(l) == HasDelta(l) /\ l.finish_reason # ""
\* the tool-call entries of a line, as position and argument fragment
EntriesOf(l) ==
  IF HasDelta(l) /\ l.hasToolCalls
  THEN [i \in DOMAIN l.tool_calls |->
          [pos |-> IF l.tool_calls[i].hasIndex THEN l.tool_calls[i].index
                   ELSE 0,
           frag |-> l.tool_calls[i].arguments]]
  ELSE <<>>

RECURSIVE FirstSeen(_, _)
\* the positions of the entries, each once, in the order first seen
FirstSeen(entries, seen) ==
  IF entries = <<>> THEN seen
  ELSE FirstSeen(Tail(entries),
                 IF \E i \in DOMAIN seen : seen[i] = Head(entries).pos
                 THEN seen ELSE Append(seen, Head(entries).pos))

RECURSIVE Fragments(_, _)
\* the fragments received for a position, concatenated in arrival order
Fragments(entries, pos) ==
  IF entries = <<>> THEN ""
  ELSE (IF Head(entries).pos = pos THEN Head(entries).frag ELSE "")
       \o Fragments(Tail(entries), pos)

\* what one flush carries: per position first seen, the concatenation
FlushOf(entries) ==
  LET order == FirstSeen(entries, <<>>)
  IN [i \in DOMAIN order |-> Fragments(entries, order[i])]

RECURSIVE ExpectedFlushes(_, _)
\* the argument texts of all flushes the lines read so far call for
ExpectedFlushes(ls, entries) ==
  IF ls = <<>>
  THEN IF readEnded THEN FlushOf(entries) ELSE <<>>
  ELSE LET e2 == entries \o EntriesOf(Head(ls))
       IN IF IsFinish(Head(ls))
          THEN FlushOf(e2) \o ExpectedFlushes(Tail(ls), <<>>)
          ELSE ExpectedFlushes(Tail(ls), e2)

\* the argument text each emitted toolUse block carries
ToolStartsAt == SelectSeq([p \in 1..Len(All) |-> p], LAMBDA p : IsToolStart(All[p]))
EmittedArguments ==
  [i \in DOMAIN ToolStartsAt |->
     LET p == ToolStartsAt[i]
     IN IF p < Len(All) /\ IsToolDelta(All[p + 1]) THEN All[p + 1].text
        ELSE ""]

\* no toolUse event before a finish_reason or the end of the stream; each
\* flush in first-seen order, the delta carrying the concatenation
C20_FlushedWhenDue == EmittedArguments = ExpectedFlushes(lines, <<>>)

\* each toolUse block is a contiguous start / delta / stop triple at one
\* index, the delta left out iff the text is empty
C20_ContiguousTriples ==
  /\ \A p \in 1..Len(All) : IsToolStart(All[p]) =>
       LET q == IF p < Len(All) /\ IsToolDelta(All[p + 1]) THEN p + 2
                ELSE p + 1
       IN /\ q <= Len(All)
          /\ IsStop(All[q])
          /\ All[q].contentBlockIndex = All[p].contentBlockIndex
          /\ (q = p + 2) =>
               All[p + 1].contentBlockIndex = All[p].contentBlockIndex
  /\ \A d \in 1..Len(All) : IsToolDelta(All[d]) =>
       d > 1 /\ IsToolStart(All[d - 1]) /\ All[d].text # ""

\* the index of a toolUse block is fresh: no earlier block started at it
C20_FreshIndex ==
  \A p \in 1..Len(All) : IsToolStart(All[p]) =>
    \A q \in 1..(p - 1) :
      IsStart(All[q]) =>
        All[q].contentBlockIndex # All[p].contentBlockIndex

\* the accumulator map is empty after a flush
C20_AccumulatorEmptied ==
  (readEnded \/ (lines # <<>> /\ IsFinish(Last(lines))))
    => toolCallAccumulator = <<>>

\* C20: tool-call deltas only update accumulators; toolUse events are
\* produced only when a finish_reason is processed or the byte stream ends;
\* then each accumulator is flushed, in the order its position was first
\* seen, as a contiguous start / delta / stop triple at one fresh index,
\* the delta carrying the concatenation of the position's fragments and
\* omitted iff it is empty; the accumulator map is empty afterwards.
C20_ToolCallsFlushedAtEnd ==
  (mode = "stream") =>
    /\ C20_FlushedWhenDue
    /\ C20_ContiguousTriples
    /\ C20_FreshIndex
    /\ C20_AccumulatorEmptied

(* --------------------- tool calls close the text block ---------------- *)
\* the events the step has added to the sequence
NewEvents == SubSeq(delivered' \o pendingEvents', Len(All) + 1,
                    Len(delivered' \o pendingEvents'))
\* the step is a read that returned exactly one complete line
OneLineStep == ReadStep /\ Len(NewLines) = 1
HasToolCalls(l) == HasDelta(l) /\ l.hasToolCalls

\* C21: when a chunk with delta.tool_calls is processed while a text block
\* is open, a ContentBlockStop with the text block's index is emitted and
\* the index advances, before anything of the tool calls is emitted; no
\* text block is open once the tool-call delta is accumulated, and a later
\* delta.content opens a text block at an index no earlier block has.
C21_ToolCallsCloseTextBlock ==
  [][ /\ (/\ OneLineStep
          /\ HasToolCalls(NewLines[1])
          /\ (currentContentBlockOpen \/ HasContent(NewLines[1])))
         => /\ \E p \in DOMAIN NewEvents :
                 /\ NewEvents[p] = BlockStop(contentBlockIndex)
                 /\ \A q \in 1..(p - 1) : NewEvents[q].kind # "toolUse"
                 /\ \A q \in (p + 1)..Len(NewEvents) :
                      NewEvents[q].kind # "text"
            /\ contentBlockIndex' > contentBlockIndex
            /\ ~currentContentBlockOpen'
      /\ (OneLineStep /\ HasToolCalls(NewLines[1]))
         => /\ ~currentContentBlockOpen'
            /\ NewLines[1].finish_reason = "" => toolCallAccumulator' # <<>>
      /\ \A p \in DOMAIN NewEvents :
           (IsStart(NewEvents[p]) /\ NewEvents[p].kind = "text")
           => /\ \A q \in DOMAIN All :
                   IsStart(All[q]) =>
                     All[q].contentBlockIndex # NewEvents[p].contentBlockIndex
              /\ \A q \in 1..(p - 1) :
                   IsStart(NewEvents[q]) =>
                     NewEvents[q].contentBlockIndex
                       # NewEvents[p].contentBlockIndex
    ]_vars

\* C21's case: text, then a tool-call delta, then text again
C21_Witness ==
  /\ Len(lines) = 3
  /\ lines[1] = TextLine("Hello")
  /\ HasToolCalls(lines[2])
  /\ lines[3] = TextLine("Hello")
  /\ Len(All) = 6
  /\ All[2] = TextStart(0)
  /\ All[4] = BlockStop(0)
  /\ All[5] = TextStart(1)
  /\ toolCallAccumulator # <<>>

(* ------------------------- finish_reason chunks ----------------------- *)
\* a parsed chunk whose first choice carries a finish_reason
CarriesFinish(l) ==
  l.prefix /\ l.payload = "json" /\ l.hasChoice /\ l.finish_reason # ""

\* C22: whenever a parsed chunk's first choice carries a finish_reason, the
\* session becomes terminal while the chunk is processed: the open text
\* block is closed, the accumulators are flushed and the MessageStop has the
\* mapped value of that finish_reason; also for a chunk whose choice has a
\* finish_reason and no delta object.
C22_FinishReasonTerminates ==
  [][ (OneLineStep /\ CarriesFinish(NewLines[1])) =>
        /\ done'
        /\ ~currentContentBlockOpen'
        /\ toolCallAccumulator' = <<>>
        /\ \E p \in DOMAIN NewEvents :
             NewEvents[p] = MessageStop(FinishTable(NewLines[1].finish_reason))
    ]_vars

(* ------------------------------- usage -------------------------------- *)
\* a parsed chunk that carries a usage object
CarriesUsage(l) == l.prefix /\ l.payload = "json" /\ l.hasUsage

\* C23: for every parsed chunk with a usage object the token counters are
\* set to its prompt_tokens / completion_tokens, whether or not the chunk
\* has a first choice; a Metadata event reports the counters as they were
\* last set.
C23_UsageOverwrites ==
  [][ /\ (OneLineStep /\ CarriesUsage(NewLines[1])) =>
           /\ inputTokens' = NewLines[1].prompt_tokens
           /\ outputTokens' = NewLines[1].completion_tokens
      /\ (OneLineStep /\ ~CarriesUsage(NewLines[1])) =>
           /\ inputTokens' = inputTokens
           /\ outputTokens' = outputTokens
      /\ (Len(NewLines) <= 1) =>
           \A p \in DOMAIN NewEvents :
             NewEvents[p].type = "metadata" =>
               NewEvents[p] = Metadata(inputTokens', outputTokens')
    ]_vars

(* ---------------------------- the retry delay ------------------------- *)
\* C24: exactly one fixed retry delay elapses between two consecutive HTTP
\* attempts and the next attempt starts only after it; no delay before the
\* first attempt, none between a failure that is not retried (not
\* retryable, or the last permitted attempt) and its propagation.
C24_OneDelayBetweenAttempts ==
  [][ /\ (attempts' # attempts) =>
           /\ attempts' = attempts + 1
           /\ dpc # "delay"
           /\ elapsed' = attempts * RETRY_DELAY
      /\ (dpc = "delay") => (attempts' = attempts /\ elapsed' > elapsed)
      /\ (dpc # "delay") => (elapsed' = elapsed)
      /\ (dpc' = "thrown" /\ attempts > 0) =>
           elapsed' = (attempts - 1) * RETRY_DELAY
    ]_vars

C24_Witness ==
  /\ dpc = "fetching"
  /\ attempts = 3
  /\ retries = 2
  /\ elapsed = 2 * RETRY_DELAY

(* --------------------- one session per response body ------------------- *)
SameBody(j, k) ==
  j # k /\ iters[j].open /\ iters[k].open /\ iters[j].call = iters[k].call

\* C25: a response body is decoded by one session in one pass: no two
\* iterators with state of their own read from the reader of the same body,
\* and the bytes of a body are never split between two sessions.
C25_OneSessionPerBody ==
  \A j, k \in Slots :
    SameBody(j, k) => (iters[j].read = <<>> /\ iters[k].read = <<>>
                       /\ iters[j].pc # "reading" /\ iters[k].pc # "reading")

(* ------------------- events as a function of the bytes ----------------- *)
\* the events of a session that receives the whole body in one read
WholeBodyEvents(bytes) ==
  LET s == IF bytes = <<>> THEN InitSess
           ELSE ProcessLines(InitSess, SegLines(Front(SplitNL(bytes, <<>>))),
                             "1000")
  IN IF s.done THEN s.pendingEvents ELSE EndOfStream(s).pendingEvents

SoleReader(k) ==
  /\ iters[k].open
  /\ \A j \in Slots : j # k => ~iters[j].open

\* C30: however the bytes of a body are split into reads, the session that
\* reads them all delivers the events it delivers when the body arrives in
\* one read.
C30_SameEventsForEverySplit ==
  \A k \in Slots :
    (SoleReader(k) /\ iters[k].lastResult = "done")
      => iters[k].delivered = WholeBodyEvents(calls[iters[k].call].body)

(* --------------------------- independent calls ------------------------- *)
IsPrefixOf(s, t) == Len(s) <= Len(t) /\ s = SubSeq(t, 1, Len(s))

\* C26: two calls interleaved on one service instance are independent: a
\* call's retry counter moves only by its own retry, one at a time, and its
\* attempts follow its own counter; the bytes an iterator of a call reads
\* and the events it delivers are those of that call's own response body.
C26_CallsIndependent ==
  [][ \A c \in Slots :
        /\ calls'[c].retries # calls[c].retries
             => /\ calls[c].dpc = "delay"
                /\ calls'[c].retries = calls[c].retries + 1
                /\ \A d \in Slots : d # c => calls'[d] = calls[d]
        /\ calls'[c].dpc # "start"
             => calls'[c].attempts = calls'[c].retries + 1
        /\ calls'[c].dpc = "thrown" /\ Includes(calls'[c].error, "5")
             => calls'[c].retries = MAX_RETRIES
        /\ iters'[c].open
             => /\ iters'[c].call = c
                /\ IsPrefixOf(iters'[c].read, calls'[c].body)
                /\ calls'[c].body = iters'[c].read \o calls'[c].left
                /\ IsPrefixOf(iters'[c].delivered,
                              WholeBodyEvents(calls'[c].body)) ]_vars

\* one call has used two retries and waits; the other never failed and its
\* consumer has all its events
C26_Witness ==
  /\ calls[1].dpc = "delay"
  /\ calls[1].retries = 2
  /\ calls[2].retries = 0
  /\ iters[2].lastResult = "done"
  /\ iters[2].delivered # <<>>

(* ----------------------- failure of a later read ----------------------- *)
\* C27: a read that fails after the stream was returned is raised from
\* next() and is not retried: the call stays returned with its attempts
\* and its retry counter as they were, and nothing delivered is delivered
\* again, at the failing step and ever after.
C27_ReadFailureNotRetried ==
  [][ \A c \in Slots :
        (iters'[c].lastResult = "throw")
          => /\ calls'[c].dpc = "returned"
             /\ calls'[c].attempts = calls[c].attempts
             /\ calls'[c].retries = calls[c].retries
             /\ calls'[c].left = calls[c].left
             /\ iters'[c].delivered = iters[c].delivered
             /\ iters'[c].pc = "failed" ]_vars

\* a call that was retried once, returned a stream and delivered events
\* before a read failed
C27_Witness ==
  /\ iters[1].lastResult = "throw"
  /\ iters[1].delivered # <<>>
  /\ calls[1].retries = 1
  /\ calls[1].attempts = 2

(* ------------------------- tools of the request ------------------------ *)
Built == cvIn.op = "request"
\* the positions of the tools that have a tool spec, and the j-th of them
SpecPositions(tools) == { i \in DOMAIN tools : tools[i].hasSpec }
SpecPosition(tools, j) ==
  CHOOSE i \in SpecPositions(tools) :
    Cardinality({ h \in SpecPositions(tools) : h <= i }) = j

\* C28: tools and tool_choice are both present or both absent in the
\* request; they are present iff some tool has a tool spec; tools then has
\* one function entry per such tool, in order, with the tool's name, its
\* description or "" and its input schema or {}; tool_choice is "auto".
C28_ToolsAndToolChoice ==
  Built =>
    LET tools == cvIn.params.toolConfig.tools
        req == cvOut.request
    IN /\ req.hasTools = req.hasToolChoice
       /\ req.hasTools <=> SpecPositions(tools) # {}
       /\ req.hasTools =>
            /\ req.tool_choice = "auto"
            /\ Len(req.tools) = Cardinality(SpecPositions(tools))
            /\ \A j \in DOMAIN req.tools :
                 LET tool == tools[SpecPosition(tools, j)]
                 IN /\ req.tools[j].type = "function"
                    /\ tool.name.def => req.tools[j].name = tool.name.val
                    /\ req.tools[j].description =
                         (IF tool.description.def THEN tool.description.val
                          ELSE "")
                    /\ req.tools[j].parameters =
                         (IF tool.json = JNull THEN JObj(<<>>) ELSE tool.json)

\* a tool without a spec between two tools with one
C28_Witness ==
  /\ Built
  /\ Len(cvIn.params.toolConfig.tools) = 3
  /\ cvIn.params.toolConfig.tools[1].description.def
  /\ ~cvIn.params.toolConfig.tools[2].hasSpec
  /\ cvIn.params.toolConfig.tools[3].hasSpec
  /\ ~cvIn.params.toolConfig.tools[3].description.def
  /\ Len(cvOut.request.tools) = 2
  /\ cvOut.request.tool_choice = "auto"

(* ------------------------ messages of the request ---------------------- *)
HasSystemMessage(req) ==
  Len(req.messages) > 0 /\ req.messages[1].role = "system"
\* the wire messages that follow the system message
Conversation(req) ==
  IF HasSystemMessage(req) THEN Tail(req.messages) ELSE req.messages
RECURSIVE InMessageOrder(_, _)
\* wire is what the messages yield one by one, in the messages' order
InMessageOrder(wire, messages) ==
  IF messages = <<>> THEN wire = <<>>
  ELSE LET first == ConvertMessage(Head(messages), "1000")
       IN /\ Len(first) <= Len(wire)
          /\ SubSeq(wire, 1, Len(first)) = first
          /\ InMessageOrder(SubSeq(wire, Len(first) + 1, Len(wire)),
                            Tail(messages))
SystemTexts(system) ==
  LET textBlocks == SelectSeq(system.blocks, IsText)
  IN [i \in DOMAIN textBlocks |-> textBlocks[i].text]

\* C29: the wire messages keep the order of the internal messages; the
\* system message is present iff the texts of the system Text blocks
\* joined by newline are non-empty, and then it is the first wire message.
C29_MessagesInOrder ==
  Built =>
    /\ InMessageOrder(Conversation(cvOut.request), cvIn.params.messages)
    /\ \A i \in DOMAIN Conversation(cvOut.request) :
         Conversation(cvOut.request)[i].role # "system"
    /\ HasSystemMessage(cvOut.request)
         <=> JoinNL(SystemTexts(cvIn.params.system)) # ""

\* C29, amended: the same, where the system message is present iff some
\* system Text block has a non-empty text, and its content is the non-empty
\* texts joined by newline.
C29_MessagesInOrderNonEmptyText ==
  Built =>
    /\ InMessageOrder(Conversation(cvOut.request), cvIn.params.messages)
    /\ \A i \in DOMAIN Conversation(cvOut.request) :
         Conversation(cvOut.request)[i].role # "system"
    /\ HasSystemMessage(cvOut.request)
         <=> (\E i \in DOMAIN cvIn.params.system.blocks :
                IsTruthyText(cvIn.params.system.blocks[i]))
    /\ HasSystemMessage(cvOut.request)
         => cvOut.request.messages[1].content =
              JoinNL(SelectSeq(SystemTexts(cvIn.params.system), NonEmpty))

\* a system prompt with an empty text between two texts, before a user
\* message that yields two wire messages and an assistant message
C29_Witness ==
  /\ Built
  /\ Len(cvIn.params.system.blocks) = 3
  /\ cvIn.params.system.blocks[2] = TextBlock("")
  /\ Len(cvIn.params.messages) = 2
  /\ Len(cvOut.request.messages) = 4
  /\ cvOut.request.messages[1].content = "a\nb"
  /\ cvOut.request.messages[2].role = "tool"
  /\ cvOut.request.messages[4].role = "assistant"

(* ------------------ lines and the carry-over buffer -------------------- *)
\* the lines of the bytes whose newline is among them
CompleteLines(bytes) == SegLines(Front(SplitNL(bytes, <<>>)))
Quiet(s) == [s EXCEPT !.pendingEvents = <<>>]

\* C31: after every read the session is what processing each line whose
\* newline was received gives, once and in order, however the bytes came in
\* chunks; the fragment after the last newline stays in the buffer, and at
\* the end of the byte stream it is dropped: the end adds the events of the
\* end only.
C31_LinesProcessedOnce ==
  \A k \in Slots :
    SoleReader(k) =>
      LET it == iters[k]
          s == ProcessLines(InitSess, CompleteLines(it.read), "1000")
          ended == it.sess.done /\ ~s.done
          expected == IF ended THEN EndOfStream(s) ELSE s
      IN /\ it.buffer = Last(SplitNL(it.read, <<>>))
         /\ ended => it.read = calls[it.call].body
         /\ Quiet(it.sess) = Quiet(expected)
         /\ it.delivered \o it.sess.pendingEvents = expected.pendingEvents

\* a body of a text line and an unterminated finish_reason line, read to
\* the end: the fragment is in the buffer and the stop reason is end_turn
C31_Witness ==
  /\ SoleReader(1)
  /\ iters[1].lastResult = "done"
  /\ iters[1].buffer =
       Front(BytesOf(<< [TextLine("!") EXCEPT !.finish_reason = "length"] >>))
  /\ iters[1].read = calls[1].body
  /\ Len(iters[1].read) = 5
  /\ \E i \in DOMAIN iters[1].delivered :
       iters[1].delivered[i] = MessageStop("end_turn")

(* ----------------------- no read after the end ------------------------- *)
\* C32: a session that a finish_reason made terminal issues no further
\* read, whatever bytes the body still holds: it is not left waiting for a
\* read, its bytes read stay as they are, and each of its steps delivers
\* the head of the pending queue or, the queue empty, reports completion.
C32_NoReadAfterFinish ==
  [][ \A k \in Slots :
        /\ iters'[k].sess.done => iters'[k].pc # "reading"
        /\ (iters[k].open /\ iters[k].sess.done)
             => /\ iters'[k].read = iters[k].read
                /\ iters'[k].buffer = iters[k].buffer
                /\ iters'[k] # iters[k]
                     => IF iters[k].sess.pendingEvents # <<>>
                        THEN /\ iters'[k].delivered =
                                  Append(iters[k].delivered,
                                         Head(iters[k].sess.pendingEvents))
                             /\ iters'[k].sess.pendingEvents =
                                  Tail(iters[k].sess.pendingEvents)
                             /\ iters'[k].lastResult = "value"
                        ELSE /\ iters'[k].lastResult = "done"
                             /\ iters'[k].delivered = iters[k].delivered ]_vars

\* completion reported after a finish_reason line while bytes of a further
\* line are left in the body
C32_Witness ==
  /\ SoleReader(1)
  /\ iters[1].lastResult = "done"
  /\ calls[1].left # <<>>
  /\ iters[1].delivered[Len(iters[1].delivered) - 1] = MessageStop("max_tokens")

(* ------------------------ the pending queue ---------------------------- *)
\* C33: the events delivered, followed by the events pending, only grow at
\* the end, and a step delivers at most one event, the oldest not yet
\* delivered: every event is delivered once, in the order it was queued.
\* When completion is reported the queue is empty, and after that no step
\* delivers an event, starts a read or reports anything but completion.
C33_QueueDeliveredInOrder ==
  [][ /\ IsPrefixOf(All, delivered' \o pendingEvents')
      /\ IsPrefixOf(delivered, delivered')
      /\ Len(delivered') <= Len(delivered) + 1
      /\ lastResult' = "done" => pendingEvents' = <<>>
      /\ Exhausted => /\ lastResult' = "done"
                      /\ delivered' = delivered
                      /\ pendingEvents' = <<>>
                      /\ pc' = "idle"
                      /\ lines' = lines
                      /\ readEnded' = readEnded ]_vars

\* completion reported after a text line and a tool-call line whose events
\* were all queued by one read and by the end of the byte stream
C33_Witness ==
  /\ Exhausted
  /\ Len(lines) = 2
  /\ readEnded
  /\ Len(delivered) = 9
  /\ pendingEvents = <<>>

(* --------------------- tool calls merged by position ------------------- *)
\* the tool-call entries of a line with their position key
KeyedEntriesOf(l) ==
  IF HasDelta(l) /\ l.hasToolCalls
  THEN [i \in DOMAIN l.tool_calls |->
          [pos |-> IF l.tool_calls[i].hasIndex THEN l.tool_calls[i].index
                   ELSE 0,
           id |-> l.tool_calls[i].id,
           name |-> l.tool_calls[i].name,
           frag |-> l.tool_calls[i].arguments]]
  ELSE <<>>
RECURSIVE KeyedEntries(_)
KeyedEntries(ls) ==
  IF ls = <<>> THEN <<>>
  ELSE KeyedEntriesOf(Head(ls)) \o KeyedEntries(Tail(ls))
PositionKeys(entries) == { entries[i].pos : i \in DOMAIN entries }

RECURSIVE LatestId(_, _, _)
\* the id of the latest entry at the position that has one, else dflt
LatestId(entries, pos, dflt) ==
  IF entries = <<>> THEN dflt
  ELSE LatestId(Tail(entries), pos,
                IF Head(entries).pos = pos /\ Head(entries).id # ""
                THEN Head(entries).id ELSE dflt)
RECURSIVE LatestName(_, _, _)
LatestName(entries, pos, dflt) ==
  IF entries = <<>> THEN dflt
  ELSE LatestName(Tail(entries), pos,
                  IF Head(entries).pos = pos /\ Head(entries).name # ""
                  THEN Head(entries).name ELSE dflt)

\* the toolUse block started at position p of the events is the one
\* accumulator of the position key
BlockOfKey(p, entries, key) ==
  /\ All[p].toolUseId \in
       { LatestId(entries, key, "call_" \o now \o "_" \o ToString(key)) :
           now \in Clock }
  /\ All[p].name = LatestName(entries, key, "")
  /\ LET args == Fragments(entries, key)
     IN IF args = "" THEN p = Len(All) \/ ~IsToolDelta(All[p + 1])
        ELSE p < Len(All) /\ IsToolDelta(All[p + 1]) /\ All[p + 1].text = args

\* C34: when the session is over, there is one toolUse block per position
\* key seen in the tool-call entries of its lines, an absent index being
\* key 0; the block of a key carries the latest non-empty id and name
\* supplied for the key and the concatenation of the key's fragments.
C34_OneBlockPerPosition ==
  Exhausted =>
    LET entries == KeyedEntries(lines)
    IN /\ Len(ToolStartsAt) = Cardinality(PositionKeys(entries))
       /\ \A key \in PositionKeys(entries) :
            Cardinality({ i \in DOMAIN ToolStartsAt :
                            BlockOfKey(ToolStartsAt[i], entries, key) }) = 1

(* ------------------- stop reason and toolUse blocks -------------------- *)
IsMessageStop(e) == e.type = "messageStop"

\* C35: a MessageStop has stopReason tool_use iff the session emitted a
\* toolUse content block.
C35_ToolUseIffToolBlock ==
  \A p \in 1..Len(All) :
    IsMessageStop(All[p]) =>
      (All[p].stopReason = "tool_use"
         <=> \E q \in 1..Len(All) : IsToolStart(All[q]))

====
